---- MODULE Spec2Model ----
(***************************************************************************)
(* Verification model of the phrase-suggestion engine                      *)
(* (src/suggestion/suggestion_generator.py).                               *)
(*                                                                         *)
(* Tokens are strings; every string operation of the code (len, word[0],   *)
(* startswith, <) is computed from the spelling of the token.  Scores are  *)
(* natural-log probabilities in fixed point (integers), so the code's      *)
(* float arithmetic (+, comparison) is exact here.  Python lists are       *)
(* sequences; a 0-based index p of the code is position p + 1.             *)
(***************************************************************************)
EXTENDS Integers, Sequences, FiniteSets, TLC

VARIABLES
    lm,                  \* Model.model: which trained n-gram model is loaded
    unfiltered_bigrams,  \* Model.unfiltered_bigrams: id -> list of successor ids
    filtered_bigrams,    \* Model.filtered_bigrams
    fn,                  \* the function whose call is in progress
    pc,                  \* position inside that call
    exc,                 \* exception that left the call, "none" otherwise
    start_words,         \* context tokens (start_words / context_toks)
    beam_width,
    length,
    prefix_logprobs,     \* list of <<logprob, prefix>>; NoPrefixes stands for None
    prefix,              \* typed prefix of the current word (beam_search_sufarr)
    n,                   \* number of suggestions asked (generate_by_beamsearch_sufarr)
    rare_word_bonus,
    latency_budget,
    elapsed,             \* cur_time - start_time at the last reading of the clock
    i,                   \* loop counter of the running search
    beam,                \* the current beam (a Python list of entries)
    ret,                 \* value returned by the call
    seed,                \* seed of the random generator for the call
    rng,                 \* state of numpy's global random generator
    tries_left,          \* retry_on_exception: iterations of the retry loop left
    calls,               \* retry_on_exception: calls of the wrapped function so far
    phrase,              \* generate_phrase: context plus words generated so far
    state,               \* generate_phrase: scoring state
    bigrams,             \* prune_bigrams: local table of the current pass
    start, after_end, word_idx, words,   \* collect_words_in_range
    lo,                  \* collect_words_in_range: the argument start as passed
    run,                 \* 1 for the first call, 2 for the repeated call
    prev,                \* outcome of the first call, None before
    temperature,         \* get_suggestions: sampling temperature of the request
    use_sufarr,          \* get_suggestions: the corpus-constraint flag
    kw,                  \* names of the keyword arguments passed on as **kw
    caller,              \* the function that called the generator, None on its own
    side_tables,         \* Model: the lazily built attributes that exist
    chosen,              \* generate_diverse_phrases: drawn first words still to complete
    res,                 \* generate_diverse_phrases: phrases completed so far
    handler,             \* on_message: position of the coroutine
    participant,         \* WebsocketHandler.participant of the connection
    connections,         \* Participant.connections of the connection's participant
    outbox,              \* messages written to the connection by send_json
    active_participants, \* app.active_participants: id -> Participant.connections
    sockets,             \* every websocket handler: open or closed, self.participant
    delivered,           \* the send_json calls of the broadcast of the last event
    close_exc            \* the exception that left the last on_close, "none" if none

vars == <<lm, unfiltered_bigrams, filtered_bigrams, fn, pc, exc, start_words,
          beam_width, length, prefix_logprobs, prefix, n, rare_word_bonus,
          latency_budget, elapsed, i, beam, ret, seed, rng, tries_left, calls, phrase,
          state,
          bigrams, start, after_end, word_idx, words, lo, run, prev,
          temperature, use_sufarr, kw, caller, side_tables, chosen, res,
          handler, participant, connections, outbox,
          active_participants, sockets, delivered, close_exc>>

\* Python's None, for a variable that holds nothing yet.
None == "None"

\* prefix_logprobs = None (the code never builds an empty prefix list).
NoPrefixes == <<>>

----------------------------------------------------------------------------
(* Bounds of the model *)

MaxWidth == 3        \* beam widths 1..MaxWidth
MaxLength == 5       \* target lengths (and step counts) 1..MaxLength
MaxLm == 1           \* trained models 0..MaxLm
MaxN == 3            \* suggestions asked 1..MaxN
MaxTick == 4         \* the clock advances by 0..MaxTick tenths of a second per reading
MaxBonus == 1        \* rare_word_bonus 0..MaxBonus

----------------------------------------------------------------------------
(* Strings *)

\* Spelling of every token that occurs in the vocabulary, the corpus, the
\* contexts and the typed prefixes.
Spell(w) ==
    CASE w = "<unk>" -> <<"<", "u", "n", "k", ">">>
      [] w = "<s>"   -> <<"<", "s", ">">>
      [] w = "</s>"  -> <<"<", "/", "s", ">">>
      [] w = "<D>"   -> <<"<", "D", ">">>
      [] w = "<S>"   -> <<"<", "S", ">">>
      [] w = "</S>"  -> <<"<", "/", "S", ">">>
      [] w = "."     -> <<".">>
      [] w = "a"     -> <<"a">>
      [] w = "at"    -> <<"a", "t">>
      [] w = "be"    -> <<"b", "e">>
      [] w = "cat"   -> <<"c", "a", "t">>
      [] w = "zoo"   -> <<"z", "o", "o">>
      [] w = "c"     -> <<"c">>
      [] w = "z"     -> <<"z">>
      [] w = ""      -> <<>>

\* Code point of a character (ASCII).
Ord(c) ==
    CASE c = "." -> 46 [] c = "/" -> 47 [] c = "<" -> 60 [] c = ">" -> 62
      [] c = "D" -> 68 [] c = "S" -> 83 [] c = "a" -> 97 [] c = "b" -> 98
      [] c = "c" -> 99 [] c = "e" -> 101 [] c = "k" -> 107 [] c = "n" -> 110
      [] c = "o" -> 111 [] c = "s" -> 115 [] c = "t" -> 116 [] c = "u" -> 117
      [] c = "z" -> 122

\* len(word)
StrLen(w) == Len(Spell(w))

\* word.startswith(p)
StartsWith(w, p) ==
    /\ Len(Spell(p)) <= Len(Spell(w))
    /\ \A k \in 1..Len(Spell(p)) : Spell(w)[k] = Spell(p)[k]

\* Lexicographic < on sequences of integers (Python's sequence comparison).
RECURSIVE IntSeqLess(_, _)
IntSeqLess(a, b) ==
    IF b = <<>> THEN FALSE
    ELSE IF a = <<>> THEN TRUE
    ELSE IF Head(a) # Head(b) THEN Head(a) < Head(b)
    ELSE IntSeqLess(Tail(a), Tail(b))

Codes(w) == [k \in 1..Len(Spell(w)) |-> Ord(Spell(w)[k])]

\* a < b on str
StrLess(a, b) == IntSeqLess(Codes(a), Codes(b))

\* a < b on lists (or tuples) of str
RECURSIVE StrSeqLess(_, _)
StrSeqLess(a, b) ==
    IF b = <<>> THEN FALSE
    ELSE IF a = <<>> THEN TRUE
    ELSE IF Head(a) # Head(b) THEN StrLess(Head(a), Head(b))
    ELSE StrSeqLess(Tail(a), Tail(b))

Range(s) == {s[k] : k \in 1..Len(s)}

RECURSIVE Concat(_)
Concat(ss) == IF ss = <<>> THEN <<>> ELSE Head(ss) \o Concat(Tail(ss))

----------------------------------------------------------------------------
(* The language model: vocabulary, scoring primitive, bigram tables *)

\* Model.id2str, the unigram section of the ARPA file, in file order; the id
\* of a word is its 0-based index (checked at load time against
\* vocab_index).
id2strList ==
    <<"<unk>", "<s>", "</s>", "<D>", "a", "<S>", "</S>", ".", "be", "cat", "at">>

VocabIds == 0..(Len(id2strList) - 1)

id2str(k) == id2strList[k + 1]

\* model.vocab_index(word): the id of the word, 0 (<unk>) for a word that
\* is not in the vocabulary.
vocab_index(w) ==
    IF \E k \in VocabIds : id2str(k) = w
    THEN CHOOSE k \in VocabIds : id2str(k) = w
    ELSE 0

eos_idx == vocab_index("</S>")
eop_idx == vocab_index("</s>")

\* Order of the n-gram model (make_model): a scoring state holds the
\* last Order - 1 word ids.
Order == 5

bos_state == <<vocab_index("<s>")>>
null_context_state == <<>>

\* The state written by base_score_from_idx(state, word_idx, new_state).
NextState(st, w) ==
    LET full == Append(st, w)
    IN  IF Len(full) <= Order - 1 THEN full
        ELSE SubSeq(full, Len(full) - (Order - 1) + 1, Len(full))

RECURSIVE StateHash(_)
StateHash(st) ==
    IF st = <<>> THEN 0 ELSE (2 * StateHash(Tail(st)) + Head(st) + 1) % 11

\* LOG10 * base_score_from_idx(state, word_idx, _): the log-probability of a
\* word after a context under the loaded model file lm, a negative number
\* that depends on all three.
LmLogProb(st, w) ==
    0 - (1 + (((3 + 12 * lm) * StateHash(st) + (5 + 3 * lm) * w + 12 * lm) % 7))

\* Model.score_seq / Model.get_state: the state after scoring a word list.
RECURSIVE score_seq(_, _)
score_seq(st, ws) ==
    IF ws = <<>> THEN st
    ELSE score_seq(NextState(st, vocab_index(Head(ws))), Tail(ws))

get_state(ws, bos) ==
    score_seq(IF bos THEN bos_state ELSE null_context_state, ws)

\* The 2-gram section of the ARPA file as get_arpa_data reads it: for each
\* first word, the list of <<log10 probability (in tenths), second word>> in
\* file order.
ArpaBigrams ==
    [w \in {"<s>", "<D>", "<S>", "a", "be", "cat", ".", "</S>", "at"} |->
        CASE w = "<s>"  -> << <<-1, "<D>">> >>
          [] w = "<D>"  -> << <<-9, "be">>, <<-5, "a">>, <<-12, "at">>, <<-7, "cat">> >>
          [] w = "<S>"  -> << <<-6, "cat">>, <<-4, "a">> >>
          [] w = "a"    -> << <<-8, "be">>, <<-3, "cat">>, <<-10, "</S>">>, <<-6, "at">> >>
          [] w = "be"   -> << <<-7, ".">>, <<-4, "a">>, <<-9, "at">> >>
          [] w = "cat"  -> << <<-5, ".">>, <<-6, "</S>">>, <<-9, "a">>, <<-9, "be">> >>
          [] w = "."    -> << <<-1, "</S>">> >>
          [] w = "</S>" -> << <<-2, "<S>">>, <<-3, "</s>">> >>
          [] w = "at"   -> << <<-2, "</S>">> >>]

pull_2nd(lst) == [k \in 1..Len(lst) |-> lst[k][2]]

\* <<prob, id>> tuples compare by probability, then by id.
PairLess(a, b) == a[1] < b[1] \/ (a[1] = b[1] /\ a[2] < b[2])

\* heapq.nlargest(k, lst) on <<prob, id>> tuples: the k largest, largest first.
RECURSIVE nlargest_pairs(_, _)
nlargest_pairs(k, lst) ==
    IF k = 0 \/ lst = <<>> THEN <<>>
    ELSE LET m == CHOOSE j \in 1..Len(lst) :
                      \A l \in 1..Len(lst) : ~PairLess(lst[j], lst[l]) \/ l = j
             rest == [l \in 1..(Len(lst) - 1) |-> IF l < m THEN lst[l] ELSE lst[l + 1]]
         IN  <<lst[m]>> \o nlargest_pairs(k - 1, rest)

\* Number of successors the filtered table keeps per word.
TopSuccessors == 100

\* encode_bigrams: both tables keyed by word id.
encoded_bigrams ==
    [a \in {vocab_index(w) : w \in DOMAIN ArpaBigrams} |->
        LET w == CHOOSE x \in DOMAIN ArpaBigrams : vocab_index(x) = a
        IN  [k \in 1..Len(ArpaBigrams[w]) |->
                <<ArpaBigrams[w][k][1], vocab_index(ArpaBigrams[w][k][2])>>]]

encode_unfiltered == [a \in DOMAIN encoded_bigrams |-> pull_2nd(encoded_bigrams[a])]

encode_filtered ==
    [a \in DOMAIN encoded_bigrams |->
        pull_2nd(nlargest_pairs(TopSuccessors, encoded_bigrams[a]))]

\* dict.get(key, [])
DictGet(d, key) == IF key \in DOMAIN d THEN d[key] ELSE <<>>

\* The strings of a set in increasing order.
RECURSIVE SortedStrs(_)
SortedStrs(S) ==
    IF S = {} THEN <<>>
    ELSE LET m == CHOOSE x \in S : \A y \in S : ~StrLess(y, x)
         IN  <<m>> \o SortedStrs(S \ {m})

\* model.vocab_trie.items(prefix): the <<word, id>> pairs of the vocabulary
\* words starting with prefix, in key order.
trie_items(p) ==
    LET ws == SortedStrs({id2str(k) : k \in {j \in VocabIds : StartsWith(id2str(j), p)}})
    IN  [k \in 1..Len(ws) |-> <<ws[k], vocab_index(ws[k])>>]

----------------------------------------------------------------------------
(* The corpus and its suffix array (suffix_array.DocSuffixArray) *)

\* sufarr.docs: the tokenized reviews, each built by spacy_tok_to_doc: '<D>'
\* opens a document, '<S>' every later sentence, '</S>' closes a sentence.
docs ==
    << <<"<D>", "a", "cat", "be", "a", "</S>">>,
       <<"<D>", "a", "cat", "</S>", "<S>", "a", "be", ".", "</S>">>,
       <<"<D>", "be", "a", "cat", "</S>">>,
       <<"<D>", "cat", "a", "be", "</S>">> >>

\* docs[d][t] with the 0-based indices of the code.
DocTok(d, t) == docs[d + 1][t + 1]
DocLen(d) == Len(docs[d + 1])

\* The suffix of document d that starts at token t.
Suffix(d, t) == SubSeq(docs[d + 1], t + 1, Len(docs[d + 1]))

Positions ==
    UNION {{<<d, t>> : t \in 0..(DocLen(d) - 1)} : d \in 0..(Len(docs) - 1)}

\* The arrays loaded from yelp_sufarr.joblib: entry r + 1 is the document and
\* the token offset of the suffix of rank r, the suffixes being in
\* increasing order (equal suffixes in order of position).
doc_idx_arr ==
    <<1, 0, 1, 2, 3, 1, 1, 0, 2, 3, 1, 0, 1, 3, 2, 1, 0, 1, 3, 0, 2, 2, 1, 3, 0>>
tok_idx_arr ==
    <<7, 5, 8, 4, 4, 3, 0, 0, 0, 0, 4, 4, 5, 2, 2, 1, 1, 6, 3, 3, 1, 3, 2, 1, 2>>

\* lcp_arr[r + 1]: length of the longest common prefix of the suffixes of
\* rank r and r + 1 (0 for the last rank).
lcp_arr ==
    <<0, 1, 1, 1, 1, 0, 3, 1, 1, 0, 0, 1, 2, 1, 3, 2, 0, 1, 1, 2, 0, 2, 1, 1, 0>>

SufLen == Len(doc_idx_arr)

\* sufarr.doc_idx[r], sufarr.tok_idx[r], sufarr.lcp[r]
doc_idx(r) == doc_idx_arr[r + 1]
tok_idx(r) == tok_idx_arr[r + 1]
lcp(r) == lcp_arr[r + 1]

\* Order of the suffixes: by token sequence, equal suffixes by position.
PosBefore(p, q) ==
    \/ StrSeqLess(Suffix(p[1], p[2]), Suffix(q[1], q[2]))
    \/ /\ Suffix(p[1], p[2]) = Suffix(q[1], q[2])
       /\ (p[1] < q[1] \/ (p[1] = q[1] /\ p[2] < q[2]))

RECURSIVE CommonPrefixLen(_, _)
CommonPrefixLen(a, b) ==
    IF a = <<>> \/ b = <<>> \/ Head(a) # Head(b) THEN 0
    ELSE 1 + CommonPrefixLen(Tail(a), Tail(b))

\* The invariants of the suffix array: the three arrays list every token
\* position once, in suffix order, and lcp holds the common prefix lengths
\* of neighbours.
SuffixArrayWellFormed ==
    /\ Len(tok_idx_arr) = SufLen /\ Len(lcp_arr) = SufLen
    /\ {<<doc_idx(r), tok_idx(r)>> : r \in 0..(SufLen - 1)} = Positions
    /\ Cardinality(Positions) = SufLen
    /\ \A r \in 0..(SufLen - 2) :
          /\ PosBefore(<<doc_idx(r), tok_idx(r)>>, <<doc_idx(r + 1), tok_idx(r + 1)>>)
          /\ lcp(r) = CommonPrefixLen(Suffix(doc_idx(r), tok_idx(r)),
                                      Suffix(doc_idx(r + 1), tok_idx(r + 1)))
    /\ lcp(SufLen - 1) = 0

\* A suffix matches a search pattern when it has a token for every element
\* of the pattern, equal to it, except that the last element of the pattern
\* only has to be the beginning of the token ('' stands for any token).
Matches(suf, pattern) ==
    /\ Len(suf) >= Len(pattern)
    /\ \A k \in 1..(Len(pattern) - 1) : suf[k] = pattern[k]
    /\ StartsWith(suf[Len(pattern)], pattern[Len(pattern)])

\* sufarr.search_range(pattern): the ranks <<lo, hi>> of the suffixes that
\* match, lo = hi when none does.
search_range(pattern) ==
    LET hits == {r \in 0..(SufLen - 1) :
                    Matches(Suffix(doc_idx(r), tok_idx(r)), pattern)}
    IN  IF hits = {} THEN <<0, 0>>
        ELSE <<CHOOSE r \in hits : \A q \in hits : r <= q,
               1 + CHOOSE r \in hits : \A q \in hits : q <= r>>

\* A token sequence occurs as a contiguous run of tokens of one document.
InCorpus(seq) ==
    \E p \in Positions :
        /\ Len(Suffix(p[1], p[2])) >= Len(seq)
        /\ SubSeq(Suffix(p[1], p[2]), 1, Len(seq)) = seq

----------------------------------------------------------------------------
(* collect_words_in_range *)

\* The scan with a strict comparison: it steps over the boundaries where
\* the token at the offset changes.
next_elt_lt(criterion, from, end) ==
    LET found == {k \in from..(end - 1) : lcp(k) < criterion}
    IN  IF found = {} THEN end ELSE CHOOSE k \in found : \A l \in found : k <= l
\* _next_elt_le(arr, criterion, start, end) on sufarr.lcp: the first index
\* in [start, end) whose lcp is <= criterion, end when there is none.
next_elt_le(criterion, from, end) ==
    LET found == {k \in from..(end - 1) : lcp(k) <= criterion}
    IN  IF found = {} THEN end ELSE CHOOSE k \in found : \A l \in found : k <= l

\* sufarr.docs[sufarr.doc_idx[r]][sufarr.tok_idx[r] + depth] is an index
\* into the document: it raises IndexError past its end.
HasTokenAt(r, depth) == tok_idx(r) + depth < DocLen(doc_idx(r))

\* The read one token too early: the column the search pattern already fixes.
TokenAtOffByOne(r, depth) == DocTok(doc_idx(r), tok_idx(r) + depth - 1)
TokenAt(r, depth) == DocTok(doc_idx(r), tok_idx(r) + depth)

\* The loop `while True` from the rank `from` on, ws being the words
\* collected so far: the result is [ok, words], ok false when a read raised
\* IndexError.
RECURSIVE collect_loop(_, _, _, _)
collect_loop(from, end, depth, ws) ==
    LET before_next_idx == next_elt_le(depth, from, end - 1)
        next_idx == before_next_idx + 1
    IN  IF before_next_idx = end - 1 THEN [ok |-> TRUE, words |-> ws]
        ELSE IF ~HasTokenAt(next_idx, depth) THEN [ok |-> FALSE, words |-> ws]
        ELSE collect_loop(next_idx, end, depth, Append(ws, TokenAt(next_idx, depth)))

\* collect_words_in_range(start, after_end, word_idx)
collect_words_in_range(from, end, depth) ==
    IF from = end THEN [ok |-> TRUE, words |-> <<>>]
    ELSE IF ~HasTokenAt(from, depth) THEN [ok |-> FALSE, words |-> <<>>]
    ELSE collect_loop(from, end, depth, <<TokenAt(from, depth)>>)

----------------------------------------------------------------------------
(* Beam entries and the heap operations of heapq *)

\* BeamEntry(score, words, done, penultimate_state, last_word_idx, num_chars,
\* bonuses); bonuses is always None in the entries the searches build.
Entry(score, ws, done, pen, last, nc) ==
    [score |-> score, words |-> ws, done |-> done, penultimate_state |-> pen,
     last_word_idx |-> last, num_chars |-> nc]

\* a < b on entry tuples: by score, then by the word lists, then by the
\* completion flag (the entries of one generation have distinct word lists).
EntryLess(a, b) ==
    \/ a.score < b.score
    \/ a.score = b.score /\ StrSeqLess(a.words, b.words)
    \/ a.score = b.score /\ a.words = b.words /\ ~a.done /\ b.done

At0(h, p) == h[p + 1]
Set0(h, p, x) == [h EXCEPT ![p + 1] = x]

\* heapq._siftdown(heap, startpos, pos), newitem being the item to place.
RECURSIVE siftdown(_, _, _, _)
siftdown(heap, startpos, pos, newitem) ==
    LET parentpos == (pos - 1) \div 2
    IN  IF pos > startpos /\ EntryLess(newitem, At0(heap, parentpos))
        THEN siftdown(Set0(heap, pos, At0(heap, parentpos)), startpos, parentpos, newitem)
        ELSE Set0(heap, pos, newitem)

\* The loop of heapq._siftup: the smaller child moves up until a leaf is
\* reached, then the new item is sifted down (towards the root) into place.
RECURSIVE siftup_loop(_, _, _, _)
siftup_loop(heap, startpos, pos, newitem) ==
    LET endpos == Len(heap)
        childpos == 2 * pos + 1
        rightpos == childpos + 1
        c == IF rightpos < endpos /\ ~EntryLess(At0(heap, childpos), At0(heap, rightpos))
             THEN rightpos ELSE childpos
    IN  IF childpos < endpos
        THEN siftup_loop(Set0(heap, pos, At0(heap, c)), startpos, c, newitem)
        ELSE siftdown(heap, startpos, pos, newitem)

siftup(heap, pos) == siftup_loop(heap, pos, pos, At0(heap, pos))

RECURSIVE heapify_from(_, _)
heapify_from(x, k) == IF k < 0 THEN x ELSE heapify_from(siftup(x, k), k - 1)

\* heapq.heapify(x)
heapify(x) == heapify_from(x, (Len(x) \div 2) - 1)

\* A replacement that overwrites the last item of the list.
replace_last(heap, item) == [heap EXCEPT ![Len(heap)] = item]

\* heapq.heapreplace(heap, item): the smallest item, heap[0], is dropped
\* and item takes its place, whatever its value.
heapreplace(heap, item) == siftup(Set0(heap, 0, item), 0)

\* sorted(beam, reverse=True)
RECURSIVE sorted_reverse(_)
sorted_reverse(lst) ==
    IF lst = <<>> THEN <<>>
    ELSE LET m == CHOOSE j \in 1..Len(lst) :
                      \A l \in 1..Len(lst) : l = j \/ EntryLess(lst[l], lst[j])
                                                   \/ (lst[l] = lst[j] /\ j < l)
             rest == [l \in 1..(Len(lst) - 1) |-> IF l < m THEN lst[l] ELSE lst[l + 1]]
         IN  <<lst[m]>> \o sorted_reverse(rest)

----------------------------------------------------------------------------
(* beam_search_phrases: plain n-gram beam search *)

\* A completion test that needs one character more than the target.
done_past(new_num_chars, len) == new_num_chars > len

\* Lines 415 and 472: an entry is completed when its character count has
\* reached the target length.
done_at(new_num_chars, len) == new_num_chars >= len

\* The first beam: one active entry holding the state of the context.
PhrasesFirstBeam(sw) ==
    <<Entry(0, <<>>, FALSE, get_state(sw, FALSE), vocab_index(sw[Len(sw)]), 0)>>

\* The <<word id, prior log-probability>> candidates of an active entry at
\* step k: the vocabulary words matching a typed prefix at the first step
\* when prefixes are given, the bigram successors of its last word otherwise.
PhrasesNextWords(entry, k, plp) ==
    IF k = 0 /\ plp # NoPrefixes
    THEN Concat([j \in 1..Len(plp) |->
                    [l \in 1..Len(trie_items(plp[j][2])) |->
                        <<trie_items(plp[j][2])[l][2], plp[j][1]>>]])
    ELSE LET table == IF k = 0 THEN unfiltered_bigrams ELSE filtered_bigrams
             nw == DictGet(table, entry.last_word_idx)
         IN  [l \in 1..Len(nw) |-> <<nw[l], 0>>]

\* The entries an active entry expands into at step k, in the order the
\* inner loop builds them; end-of-sentence and end-of-document successors
\* are skipped.
PhrasesExpand(entry, k, plp, len) ==
    LET last_state == IF k > 0
                      THEN NextState(entry.penultimate_state, entry.last_word_idx)
                      ELSE entry.penultimate_state
        prefix_chars == IF k > 0 THEN 1 ELSE 0
        cands == SelectSeq(PhrasesNextWords(entry, k, plp),
                           LAMBDA c : c[1] # eos_idx /\ c[1] # eop_idx)
    IN  [l \in 1..Len(cands) |->
            LET wi == cands[l][1]
                new_num_chars == entry.num_chars + prefix_chars + StrLen(id2str(wi))
            IN  Entry(entry.score + cands[l][2] + LmLogProb(last_state, wi),
                      Append(entry.words, id2str(wi)),
                      done_at(new_num_chars, len), last_state, wi, new_num_chars)]

\* A loop over the beam that expands the completed entries as well.
PhrasesCandidatesAll(bm, k, plp, len) ==
    Concat([j \in 1..Len(bm) |-> PhrasesExpand(bm[j], k, plp, len)])

\* All new entries of step k, in the order they reach the heap.
PhrasesCandidates(bm, k, plp, len) ==
    Concat([j \in 1..Len(bm) |->
               IF bm[j].done THEN <<>> ELSE PhrasesExpand(bm[j], k, plp, len)])

\* A push that never heapifies the list when it fills up.
PhrasesPushNoHeapify(new_beam, new_entry, width) ==
    IF Len(new_beam) = width
    THEN heapreplace(new_beam, new_entry)
    ELSE Append(new_beam, new_entry)

\* Lines 416-421: one new entry enters new_beam.
PhrasesPush(new_beam, new_entry, width) ==
    IF Len(new_beam) = width
    THEN heapreplace(new_beam, new_entry)
    ELSE LET appended == Append(new_beam, new_entry)
         IN  IF Len(appended) = width THEN heapify(appended) ELSE appended

RECURSIVE PhrasesPushAll(_, _, _)
PhrasesPushAll(new_beam, ents, width) ==
    IF ents = <<>> THEN new_beam
    ELSE PhrasesPushAll(PhrasesPush(new_beam, Head(ents), width), Tail(ents), width)

\* One iteration of the loop over range(length): the beam after step k.
PhrasesNewBeam(bm, k, plp, len, width) ==
    PhrasesPushAll(SelectSeq(bm, LAMBDA ent : ent.done),
                   PhrasesCandidates(bm, k, plp, len), width)

----------------------------------------------------------------------------
(* beam_search_sufarr: corpus-constrained beam search *)

\* last_word_idx = None in the first entry.
NoWord == 0 - 1

\* model.unigram_probs[k]: natural-log unigram probability of word k.
unigram_probs(k) == 0 - (2 + ((3 * k) % 5))

\* word[0] == '<'
is_special(w) == Spell(w)[1] = "<"

\* A punctuation test that only knows the markers.
is_marker_only(w) == is_special(w)

\* word[0] in '<.!?'
is_punct(w) == Spell(w)[1] \in {"<", ".", "!", "?"}

\* Ids up to this one never get the rare-word bonus.
RareIdThreshold == 4

SufarrFirstBeam(sw) == <<Entry(0, <<>>, FALSE, get_state(sw, FALSE), NoWord, 0)>>

\* The continuations of an active entry found in the corpus at step k.
SufarrNextWords(entry, k, sw, pfx) ==
    LET rng_ == search_range(<<sw[Len(sw)]>> \o entry.words \o <<pfx>>)
    IN  collect_words_in_range(rng_[1], rng_[2], k + 1)

\* The entries an active entry yields for the corpus words nw at step k.
SufarrExpand(entry, nw, k, len, bonus) ==
    LET last_state == IF entry.last_word_idx # NoWord
                      THEN NextState(entry.penultimate_state, entry.last_word_idx)
                      ELSE entry.penultimate_state
        prefix_chars == IF k > 0 THEN 1 ELSE 0
    IN  [l \in 1..Len(nw) |->
            LET word == nw[l]
                wi == vocab_index(word)
                new_num_chars ==
                    entry.num_chars
                        + (IF is_special(word) THEN 0 ELSE prefix_chars + StrLen(word))
                logprob == LmLogProb(last_state, wi)
                unigram_bonus ==
                    IF k > 0 /\ wi > RareIdThreshold /\ ~is_punct(word)
                             /\ word \notin Range(entry.words)
                    THEN (0 - unigram_probs(wi)) * bonus
                    ELSE 0
            IN  Entry(entry.score + logprob + unigram_bonus,
                      Append(entry.words, word),
                      done_at(new_num_chars, len), last_state, wi, new_num_chars)]

\* What the generator candidates() does with one entry of the beam: the
\* exception it raises ("none" when it raises none) and what it yields.
SufarrYield(entry, k, sw, pfx, len, bonus) ==
    IF entry.done THEN [exc |-> "none", ents |-> <<entry>>]
    ELSE LET got == SufarrNextWords(entry, k, sw, pfx)
         IN  IF ~got.ok THEN [exc |-> "IndexError", ents |-> <<>>]
             ELSE IF got.words = <<>>
             THEN \* the assertion reads model.id2str[last_word_idx]
                  IF entry.last_word_idx = NoWord
                  THEN [exc |-> "TypeError", ents |-> <<>>]
                  ELSE IF id2str(entry.last_word_idx) # "</S>"
                  THEN [exc |-> "AssertionError", ents |-> <<>>]
                  ELSE [exc |-> "none", ents |-> <<>>]
             ELSE [exc |-> "none", ents |-> SufarrExpand(entry, got.words, k, len, bonus)]

\* candidates() run to its end over the beam from entry j on: the first
\* exception stops it.
RECURSIVE SufarrCandidates(_, _, _, _, _, _, _)
SufarrCandidates(bm, j, k, sw, pfx, len, bonus) ==
    IF j > Len(bm) THEN [exc |-> "none", ents |-> <<>>]
    ELSE LET y == SufarrYield(bm[j], k, sw, pfx, len, bonus)
         IN  IF y.exc # "none" THEN y
             ELSE LET rest == SufarrCandidates(bm, j + 1, k, sw, pfx, len, bonus)
                  IN  [exc |-> rest.exc, ents |-> y.ents \o rest.ents]

\* The first k candidates in the order they were yielded.
first_yielded(k, ents) == SubSeq(ents, 1, IF k < Len(ents) THEN k ELSE Len(ents))

\* heapq.nlargest(k, entries): the k largest, largest first.
nlargest(k, ents) ==
    LET srt == sorted_reverse(ents)
    IN  SubSeq(srt, 1, IF k < Len(srt) THEN k ELSE Len(srt))

\* A check that already stops the search when the budget is just reached.
BudgetReached(t, budget) == t >= budget

\* The clock is read past the budget: `cur_time - start_time > latency_budget`.
BudgetExceeded(t, budget) == t > budget

----------------------------------------------------------------------------
(* generate_by_beamsearch_sufarr: diversity-aware top-n extraction *)

\* The key of ents.sort: (first word not used yet, score).
DivKeyLess(a, b, first_words) ==
    LET ka == a.words[1] \notin first_words
        kb == b.words[1] \notin first_words
    IN  (~ka /\ kb) \/ (ka = kb /\ a.score < b.score)

\* ents.sort(reverse=True, key=...) followed by ents.pop(0): the position of
\* the entry with the largest key, the first of them in list order (the
\* sort is stable).
DivBest(ents, first_words) ==
    CHOOSE j \in 1..Len(ents) :
        \A l \in 1..Len(ents) :
            \/ l = j
            \/ DivKeyLess(ents[l], ents[j], first_words)
            \/ (~DivKeyLess(ents[j], ents[l], first_words) /\ j < l)

\* ents after the stable sort, the largest key first.
RECURSIVE DivSorted(_, _)
DivSorted(ents, first_words) ==
    IF ents = <<>> THEN <<>>
    ELSE LET m == DivBest(ents, first_words)
             rest == [l \in 1..(Len(ents) - 1) |-> IF l < m THEN ents[l] ELSE ents[l + 1]]
         IN  <<ents[m]>> \o DivSorted(rest, first_words)

\* The loop `while len(result) < n and len(ents) > 0`.
RECURSIVE DivLoop(_, _, _, _)
DivLoop(result, ents, first_words, k) ==
    IF Len(result) < k /\ Len(ents) > 0
    THEN LET srt == DivSorted(ents, first_words)
             best == Head(srt)
         IN  DivLoop(Append(result, best), Tail(srt),
                     first_words \cup {best.words[1]}, k)
    ELSE result

\* [word for word in ent.words if word[0] != '<']
StripMarkers(ws) == SelectSeq(ws, LAMBDA w : ~is_special(w))

\* Lines 496-504 on the entries the search returned: the exception raised
\* ("none" when none) and the list of phrases returned.
DiverseTopN(ents, k) ==
    IF ents = <<>> THEN [exc |-> "IndexError", phrases |-> <<>>]
    ELSE IF Head(ents).words = <<>> THEN [exc |-> "IndexError", phrases |-> <<>>]
    ELSE LET result == DivLoop(<<Head(ents)>>, Tail(ents), {Head(ents).words[1]}, k)
         IN  [exc |-> "none",
              phrases |-> [l \in 1..Len(result) |-> StripMarkers(result[l].words)]]

----------------------------------------------------------------------------
(* Calls and their inputs *)

\* Token lists tokenize_sofar can return: '<s>', '<D>', then the words typed.
Contexts ==
    { <<"<s>", "<D>">>, <<"<s>", "<D>", "a">>, <<"<s>", "<D>", "be">>,
      <<"<s>", "<D>", "a", "cat">>, <<"<s>", "<D>", "at">>,
      <<"<s>", "<D>", "zoo">> }

\* Letters typed of the current word (cur_word), "" when none.
Prefixes == {"", "a", "c", "z"}

\* get_suggestions, line 562: the prefix list handed to the plain search.
PrefixLogprobs(p) == IF p = "" THEN NoPrefixes ELSE << <<0, p>> >>

modelVars == <<lm, unfiltered_bigrams, filtered_bigrams>>
inputVars == <<start_words, length, prefix_logprobs, prefix, n, rare_word_bonus,
               latency_budget, seed>>
sampleVars == <<rng, tries_left, calls, phrase, state>>
pruneVars == <<bigrams>>
collectVars == <<start, after_end, word_idx, words, lo>>
requestVars == <<temperature, use_sufarr, kw, caller>>
diverseVars == <<chosen, res>>
appVars == <<handler, participant, connections, outbox>>
wsVars == <<active_participants, sockets, delivered, close_exc>>
\* What the calls modelled on their own never read or write.
serveVars == <<requestVars, side_tables, diverseVars, appVars, wsVars>>

\* Model._load: the tables encode_bigrams builds from the ARPA file.
ModelLoaded ==
    /\ lm \in 0..MaxLm
    /\ unfiltered_bigrams = encode_unfiltered
    /\ filtered_bigrams = encode_filtered

NoSample ==
    rng = None /\ tries_left = None /\ calls = None /\ phrase = None /\ state = None
NoPrune == bigrams = None
\* No websocket handler exists.
NoSockets ==
    /\ active_participants = None /\ sockets = None /\ delivered = None
    /\ close_exc = None

\* No request is being dispatched, no connection is open.
NoServe ==
    /\ NoSockets
    /\ temperature = None /\ use_sufarr = None /\ kw = None /\ caller = None
    /\ side_tables = None /\ chosen = None /\ res = None
    /\ handler = None /\ participant = None /\ connections = None
    /\ outbox = None

NoCollect ==
    /\ start = None /\ after_end = None /\ word_idx = None /\ words = None
    /\ lo = None

\* What is kept of a finished call when the same request is served again.
Outcome ==
    [pc |-> pc, exc |-> exc, ret |-> ret, beam_width |-> beam_width,
     elapsed |-> elapsed, i |-> i]

InitPhrases ==
    /\ ModelLoaded
    /\ fn = "beam_search_phrases" /\ pc = "loop" /\ exc = "none"
    /\ start_words \in Contexts
    /\ beam_width \in 1..MaxWidth
    /\ length \in 1..MaxLength
    /\ prefix_logprobs \in {PrefixLogprobs(p) : p \in Prefixes}
    /\ prefix = None /\ n = None /\ rare_word_bonus = None
    /\ latency_budget = None /\ elapsed = None
    /\ seed = None
    /\ i = 0
    /\ beam = PhrasesFirstBeam(start_words)
    /\ ret = None
    /\ NoSample /\ NoPrune /\ NoCollect
    /\ run = 1 /\ prev = None
    /\ NoServe

\* One pass of the loop `for i in range(length)` of beam_search_phrases.
PhrasesStep ==
    /\ fn = "beam_search_phrases" /\ pc = "loop" /\ i < length
    /\ beam' = PhrasesNewBeam(beam, i, prefix_logprobs, length, beam_width)
    /\ i' = i + 1
    /\ UNCHANGED <<serveVars, modelVars, inputVars, sampleVars, pruneVars, collectVars,
                   fn, pc, exc, beam_width, elapsed, ret, run, prev>>

\* Line 424: the loop is over, the entries are returned best first.
PhrasesReturn ==
    /\ fn = "beam_search_phrases" /\ pc = "loop" /\ i = length
    /\ ret' = sorted_reverse(beam)
    /\ pc' = "done"
    /\ UNCHANGED <<serveVars, modelVars, inputVars, sampleVars, pruneVars, collectVars,
                   fn, exc, beam_width, elapsed, i, beam, run, prev>>

\* The same search is asked again with a beam width of the caller's choice
\* (generate_by_beamsearch_ngram searches with width 10, then with
\* beam_width).
PhrasesAgain ==
    /\ fn = "beam_search_phrases" /\ pc = "done" /\ run = 1
    /\ prev' = Outcome
    /\ run' = 2
    /\ beam_width' \in 1..MaxWidth
    /\ pc' = "loop" /\ i' = 0 /\ ret' = None
    /\ beam' = PhrasesFirstBeam(start_words)
    /\ UNCHANGED <<serveVars, modelVars, inputVars, sampleVars, pruneVars, collectVars,
                   fn, exc, elapsed>>

NextPhrases == PhrasesStep \/ PhrasesReturn \/ PhrasesAgain

SpecPhrases == InitPhrases /\ [][NextPhrases]_vars

----------------------------------------------------------------------------
(* generate_by_beamsearch_sufarr and the beam_search_sufarr call it makes *)

\* Default of the parameter latency_budget (.3 s), in tenths of a second.
LatencyBudget == 3

InitSufarr ==
    /\ ModelLoaded
    /\ fn = "generate_by_beamsearch_sufarr" /\ pc = "search" /\ exc = "none"
    /\ start_words \in Contexts
    /\ beam_width \in 1..MaxWidth
    /\ length \in 1..MaxLength
    /\ prefix \in Prefixes
    /\ n \in 1..MaxN
    /\ rare_word_bonus \in 0..MaxBonus
    /\ latency_budget = LatencyBudget
    /\ elapsed = 0
    /\ prefix_logprobs = None /\ seed = None
    /\ i = 0
    /\ beam = SufarrFirstBeam(start_words)
    /\ ret = None
    /\ NoSample /\ NoPrune /\ NoCollect
    /\ run = 1 /\ prev = None
    /\ NoServe

\* The prefix argument is only used by the first step (`prefix = ''` at the
\* end of every step).
SufarrPrefix == IF i = 0 THEN prefix ELSE ""

\* Lines 436-442: the clock is read at the top of a step and the budget is
\* found exceeded: the loop is left with the beam as it stands.
SufarrBreak ==
    /\ fn = "generate_by_beamsearch_sufarr" /\ pc = "search" /\ i < length
    /\ \E cur \in elapsed..(elapsed + MaxTick) :
        /\ BudgetExceeded(cur, latency_budget)
        /\ elapsed' = cur
    /\ pc' = "extract"
    /\ UNCHANGED <<serveVars, modelVars, inputVars, sampleVars, pruneVars, collectVars,
                   fn, exc, beam_width, i, beam, ret, run, prev>>

\* One step within the budget: the beam becomes the beam_width best candidates.
SufarrStep ==
    /\ fn = "generate_by_beamsearch_sufarr" /\ pc = "search" /\ i < length
    /\ \E cur \in elapsed..(elapsed + MaxTick) :
        /\ ~BudgetExceeded(cur, latency_budget)
        /\ elapsed' = cur
    /\ LET c == SufarrCandidates(beam, 1, i, start_words, SufarrPrefix, length,
                                 rare_word_bonus)
       IN  /\ c.exc = "none"
           /\ beam' = nlargest(beam_width, c.ents)
    /\ i' = i + 1
    /\ UNCHANGED <<serveVars, modelVars, inputVars, sampleVars, pruneVars, collectVars,
                   fn, pc, exc, beam_width, ret, run, prev>>

\* One step within the budget in which candidates() raises: the exception
\* leaves beam_search_sufarr and generate_by_beamsearch_sufarr.
SufarrStepRaises ==
    /\ fn = "generate_by_beamsearch_sufarr" /\ pc = "search" /\ i < length
    /\ \E cur \in elapsed..(elapsed + MaxTick) :
        /\ ~BudgetExceeded(cur, latency_budget)
        /\ elapsed' = cur
    /\ LET c == SufarrCandidates(beam, 1, i, start_words, SufarrPrefix, length,
                                 rare_word_bonus)
       IN  /\ c.exc # "none"
           /\ exc' = c.exc
    /\ pc' = "raised"
    /\ UNCHANGED <<serveVars, modelVars, inputVars, sampleVars, pruneVars, collectVars,
                   fn, beam_width, i, beam, ret, run, prev>>

\* The loop ran `length` steps: beam_search_sufarr returns the beam.
SufarrLoopEnd ==
    /\ fn = "generate_by_beamsearch_sufarr" /\ pc = "search" /\ i = length
    /\ pc' = "extract"
    /\ UNCHANGED <<serveVars, modelVars, inputVars, sampleVars, pruneVars, collectVars,
                   fn, exc, beam_width, elapsed, i, beam, ret, run, prev>>

\* Lines 496-504: the n phrases are picked from the returned entries.
SufarrExtract ==
    /\ fn = "generate_by_beamsearch_sufarr" /\ pc = "extract"
    /\ LET r == DiverseTopN(beam, n)
       IN  /\ exc' = r.exc
           /\ pc' = IF r.exc = "none" THEN "done" ELSE "raised"
           /\ ret' = IF r.exc = "none" THEN r.phrases ELSE ret
    /\ UNCHANGED <<serveVars, modelVars, inputVars, sampleVars, pruneVars, collectVars,
                   fn, beam_width, elapsed, i, beam, run, prev>>

NextSufarr ==
    SufarrBreak \/ SufarrStep \/ SufarrStepRaises \/ SufarrLoopEnd \/ SufarrExtract

SpecSufarr == InitSufarr /\ [][NextSufarr]_vars

----------------------------------------------------------------------------
(* Model.prune_bigrams *)

MaxPruneId == 3      \* word ids 1..MaxPruneId in the tables that are pruned
MaxSucc == 2         \* successors listed under one word: 1..MaxSucc

PruneIds == 1..MaxPruneId

\* The successor lists encode_bigrams can build over these ids: not empty
\* (a key exists because a bigram was read), ids in increasing order.
SuccLists ==
    {sq \in UNION {[1..m -> PruneIds] : m \in 1..MaxSucc} :
        \A a, b \in 1..Len(sq) : a < b => sq[a] < sq[b]}

\* The tables Model._load can leave in unfiltered_bigrams.
PruneTables == UNION {[K -> SuccLists] : K \in SUBSET PruneIds}

\* heapq.nlargest(100, nexts) on a list of at most 100 bigrams of equal
\* probability: the ids in decreasing order.
ReverseList(sq) == [k \in 1..Len(sq) |-> sq[Len(sq) + 1 - k]]

\* Line 106: the successors that have successors themselves.
new_bigrams(b) ==
    [k \in DOMAIN b |-> SelectSeq(b[k], LAMBDA tok : Len(DictGet(b, tok)) > 0)]

\* Line 107: the words that still have a successor.
new_bigrams_trim(b) ==
    LET nb == new_bigrams(b)
    IN  [k \in {x \in DOMAIN nb : Len(nb[x]) > 0} |-> nb[k]]

\* Line 108: len(new_bigrams) == len(new_bigrams_trim)
PruneFixpoint(b) ==
    Cardinality(DOMAIN new_bigrams(b)) = Cardinality(DOMAIN new_bigrams_trim(b))

InitPrune ==
    /\ lm = 0
    /\ unfiltered_bigrams \in PruneTables
    /\ filtered_bigrams = [k \in DOMAIN unfiltered_bigrams |->
                              ReverseList(unfiltered_bigrams[k])]
    /\ fn = "prune_bigrams" /\ pc = "pass" /\ exc = "none"
    /\ bigrams = unfiltered_bigrams
    /\ start_words = None /\ beam_width = None /\ length = None
    /\ prefix_logprobs = None /\ prefix = None /\ n = None
    /\ rare_word_bonus = None /\ latency_budget = None /\ elapsed = None
    /\ seed = None /\ i = None /\ beam = None /\ ret = None
    /\ NoSample /\ NoCollect
    /\ run = 1 /\ prev = None
    /\ NoServe

\* Lines 106-110: a pass that emptied some word's list; the trimmed table is
\* the table of the next pass.
PrunePass ==
    /\ fn = "prune_bigrams" /\ pc = "pass"
    /\ ~PruneFixpoint(bigrams)
    /\ bigrams' = new_bigrams_trim(bigrams)
    /\ UNCHANGED <<serveVars, modelVars, inputVars, sampleVars, collectVars, fn, pc, exc,
                   beam_width, elapsed, i, beam, ret, run, prev>>

\* Lines 106-109: a pass that emptied no list leaves the loop; bigrams is
\* not assigned in this pass.
PruneBreak ==
    /\ fn = "prune_bigrams" /\ pc = "pass"
    /\ PruneFixpoint(bigrams)
    /\ pc' = "store"
    /\ UNCHANGED <<serveVars, modelVars, inputVars, sampleVars, pruneVars, collectVars, fn,
                   exc, beam_width, elapsed, i, beam, ret, run, prev>>

\* Line 111: self.unfiltered_bigrams = bigrams
PruneStore ==
    /\ fn = "prune_bigrams" /\ pc = "store"
    /\ unfiltered_bigrams' = bigrams
    /\ pc' = "done"
    /\ UNCHANGED <<serveVars, lm, filtered_bigrams, inputVars, sampleVars, pruneVars,
                   collectVars, fn, exc, beam_width, elapsed, i, beam, ret, run,
                   prev>>

NextPrune == PrunePass \/ PruneBreak \/ PruneStore

SpecPrune == InitPrune /\ [][NextPrune]_vars

----------------------------------------------------------------------------
(* collect_words_in_range, statement by statement *)

MaxDepth == 3        \* token offsets (word_idx) 0..MaxDepth

InitCollect ==
    /\ lm = 0
    /\ unfiltered_bigrams = encode_unfiltered
    /\ filtered_bigrams = encode_filtered
    /\ fn = "collect_words_in_range" /\ pc = "entry" /\ exc = "none"
    /\ start \in 0..SufLen
    /\ after_end \in start..SufLen
    /\ word_idx \in 0..MaxDepth
    /\ words = <<>>
    /\ lo = start
    /\ start_words = None /\ beam_width = None /\ length = None
    /\ prefix_logprobs = None /\ prefix = None /\ n = None
    /\ rare_word_bonus = None /\ latency_budget = None /\ elapsed = None
    /\ seed = None /\ i = None /\ beam = None /\ ret = None
    /\ NoSample /\ NoPrune
    /\ run = 1 /\ prev = None
    /\ NoServe

\* Lines 230-231: an empty range returns the empty list (the list returned
\* is the local list words, here and at line 242).
CollectEmpty ==
    /\ fn = "collect_words_in_range" /\ pc = "entry"
    /\ start = after_end
    /\ pc' = "done"
    /\ UNCHANGED <<serveVars, modelVars, inputVars, sampleVars, pruneVars, collectVars, fn,
                   exc, beam_width, elapsed, i, beam, ret, run, prev>>

\* Lines 232-233: the token of the first rank is read (IndexError past the
\* end of its document) and appended.
CollectFirst ==
    /\ fn = "collect_words_in_range" /\ pc = "entry"
    /\ start # after_end
    /\ IF HasTokenAt(start, word_idx)
       THEN /\ words' = Append(words, TokenAt(start, word_idx))
            /\ pc' = "loop"
            /\ exc' = exc
       ELSE /\ words' = words
            /\ pc' = "raised"
            /\ exc' = "IndexError"
    /\ UNCHANGED <<serveVars, modelVars, inputVars, sampleVars, pruneVars, start, after_end,
                   word_idx, lo, fn, beam_width, elapsed, i, beam, ret, run, prev>>

\* Lines 235-241: a pass of the loop that finds a boundary before the last
\* rank: the token after the boundary is read and appended.
CollectJump ==
    /\ fn = "collect_words_in_range" /\ pc = "loop"
    /\ LET before_next_idx == next_elt_le(word_idx, start, after_end - 1)
           next_idx == before_next_idx + 1
       IN  /\ before_next_idx # after_end - 1
           /\ IF HasTokenAt(next_idx, word_idx)
              THEN /\ words' = Append(words, TokenAt(next_idx, word_idx))
                   /\ start' = next_idx
                   /\ pc' = pc
                   /\ exc' = exc
              ELSE /\ words' = words
                   /\ start' = start
                   /\ pc' = "raised"
                   /\ exc' = "IndexError"
    /\ UNCHANGED <<serveVars, modelVars, inputVars, sampleVars, pruneVars, after_end,
                   word_idx, lo, fn, beam_width, elapsed, i, beam, ret, run, prev>>

\* Lines 235-237 and 242: no boundary is left; words is returned.
CollectBreak ==
    /\ fn = "collect_words_in_range" /\ pc = "loop"
    /\ next_elt_le(word_idx, start, after_end - 1) = after_end - 1
    /\ pc' = "done"
    /\ UNCHANGED <<serveVars, modelVars, inputVars, sampleVars, pruneVars, collectVars, fn,
                   exc, beam_width, elapsed, i, beam, ret, run, prev>>

NextCollect == CollectEmpty \/ CollectFirst \/ CollectJump \/ CollectBreak

SpecCollect == InitCollect /\ [][NextCollect]_vars /\ WF_vars(NextCollect)

----------------------------------------------------------------------------
(* generate_phrase under retry_on_exception(GenerationFailedException, 10) *)

MaxSeed == 3         \* seeds 0..MaxSeed of the random generator

\* The decorator's argument `tries` (line 282).
Tries == 10

GenerationFailedException == "GenerationFailedException"

\* numpy's global generator: a full-period linear congruential generator
\* over RngMod states stands for it; seeding sets the state.
RngMod == 16
RngNext(r) == (5 * r + 3) % RngMod

\* Lines 184-187: the <<word id, prior logprob>> of the vocabulary words
\* that start with one of the prefixes.
PrefixedWords(plp) ==
    Concat([j \in 1..Len(plp) |->
               [l \in 1..Len(trie_items(plp[j][2])) |->
                   <<trie_items(plp[j][2])[l][2], plp[j][1]>>]])

\* Model.next_word_logprobs_raw(state, prev_word, prefix_logprobs): the list
\* of <<word id, logprob>>.
next_word_logprobs_raw(st, prev_word, plp) ==
    LET prefixed == PrefixedWords(plp)
        own == DictGet(unfiltered_bigrams, vocab_index(prev_word))
        fallback == IF Len(own) = 0
                    THEN DictGet(unfiltered_bigrams, vocab_index("<S>"))
                    ELSE own
        kept == SelectSeq(fallback, LAMBDA w : w # eos_idx /\ w # eop_idx)
    IN  IF plp # NoPrefixes
        THEN [k \in 1..Len(prefixed) |->
                <<prefixed[k][1], LmLogProb(st, prefixed[k][1]) + prefixed[k][2]>>]
        ELSE [k \in 1..Len(kept) |-> <<kept[k], LmLogProb(st, kept[k])>>]

\* softmax(logprobs)[k] up to the common factor, in fixed point: positive
\* for every candidate and increasing with its logprob.
ChoiceWeight(logprob) == IF logprob > 0 - 8 THEN 9 + logprob ELSE 1

RECURSIVE WeightSum(_, _)
WeightSum(cands, k) ==
    IF k = 0 THEN 0 ELSE WeightSum(cands, k - 1) + ChoiceWeight(cands[k][2])

\* np.random.choice(len(probs), p=probs) when the generator yields r: the
\* first index whose cumulative probability passes the draw (1-based).
random_choice(r, cands) ==
    LET u == (r * WeightSum(cands, Len(cands))) \div RngMod
    IN  CHOOSE k \in 1..Len(cands) :
            /\ WeightSum(cands, k) > u
            /\ \A j \in 1..(k - 1) : WeightSum(cands, j) <= u

\* Lines 271-278: an exception met by the wrapper starts another call when
\* it is the exception retried on and the loop has an iteration left.
retry_off_by_one(e, left) == e = GenerationFailedException /\ left > 1
retry_continues(e, left) == e = GenerationFailedException /\ left > 0

\* Token lists generate_phrase is called with: those of tokenize_sofar, and
\* the empty list.
SampleContexts == Contexts \cup {<<>>}

InitSample ==
    /\ ModelLoaded
    /\ fn = "generate_phrase" /\ pc = "call" /\ exc = "none"
    /\ start_words \in SampleContexts
    /\ length \in 1..MaxLength
    /\ prefix_logprobs \in {PrefixLogprobs(p) : p \in Prefixes}
    /\ seed \in 0..MaxSeed
    /\ rng = seed
    /\ tries_left = Tries /\ calls = 0
    /\ phrase = <<>> /\ state = <<>>
    /\ i = 0
    /\ beam_width = None /\ prefix = None /\ n = None
    /\ rare_word_bonus = None /\ latency_budget = None /\ elapsed = None
    /\ beam = None /\ ret = None
    /\ NoPrune /\ NoCollect
    /\ run = 1 /\ prev = None
    /\ NoServe

\* Lines 273 / 278 and 284-289: the wrapper calls generate_phrase, which
\* reads context_toks[0] (IndexError on an empty list) and scores the context.
SampleCall ==
    /\ fn = "generate_phrase" /\ pc = "call"
    /\ calls' = calls + 1
    /\ IF start_words = <<>>
       THEN /\ pc' = "except" /\ exc' = "IndexError"
            /\ UNCHANGED <<phrase, state, i>>
       ELSE /\ state' = IF start_words[1] = "<s>"
                        THEN get_state(Tail(start_words), TRUE)
                        ELSE get_state(start_words, FALSE)
            /\ phrase' = start_words
            /\ i' = 0
            /\ pc' = "step" /\ exc' = exc
    /\ UNCHANGED <<serveVars, modelVars, inputVars, pruneVars, collectVars, rng, tries_left,
                   fn, beam_width, elapsed, beam, ret, run, prev>>

\* The candidates of step i of the call in progress (prefix_logprobs is
\* None after the first step).
SampleCandidates ==
    next_word_logprobs_raw(state, phrase[Len(phrase)],
                           IF i = 0 THEN prefix_logprobs ELSE NoPrefixes)

\* Lines 291-302: one word is drawn and appended.
SampleStep ==
    /\ fn = "generate_phrase" /\ pc = "step" /\ i < length
    /\ SampleCandidates # <<>>
    /\ rng' = RngNext(rng)
    /\ LET picked_idx == SampleCandidates[random_choice(rng', SampleCandidates)][1]
       IN  /\ state' = NextState(state, picked_idx)
           /\ phrase' = Append(phrase, id2str(picked_idx))
    /\ i' = i + 1
    /\ UNCHANGED <<serveVars, modelVars, inputVars, pruneVars, collectVars, tries_left, calls,
                   fn, pc, exc, beam_width, elapsed, beam, ret, run, prev>>

\* Lines 292-293: no candidate: the call raises GenerationFailedException.
SampleFails ==
    /\ fn = "generate_phrase" /\ pc = "step" /\ i < length
    /\ SampleCandidates = <<>>
    /\ pc' = "except" /\ exc' = GenerationFailedException
    /\ UNCHANGED <<serveVars, modelVars, inputVars, sampleVars, pruneVars, collectVars,
                   fn, beam_width, elapsed, i, beam, ret, run, prev>>

\* Line 303 (and `return fn(*a, **kw)`): the generated words are returned.
SampleReturn ==
    /\ fn = "generate_phrase" /\ pc = "step" /\ i = length
    /\ ret' = SubSeq(phrase, Len(start_words) + 1, Len(phrase))
    /\ pc' = "done"
    /\ UNCHANGED <<serveVars, modelVars, inputVars, sampleVars, pruneVars, collectVars,
                   fn, exc, beam_width, elapsed, i, beam, run, prev>>

\* Lines 274-275: `continue`: the next iteration, or the call after the loop.
WrapperRetry ==
    /\ fn = "generate_phrase" /\ pc = "except"
    /\ retry_continues(exc, tries_left)
    /\ tries_left' = tries_left - 1
    /\ pc' = "call" /\ exc' = "none"
    /\ UNCHANGED <<serveVars, modelVars, inputVars, pruneVars, collectVars, rng, calls,
                   phrase, state, fn, beam_width, elapsed, i, beam, ret, run, prev>>

\* Lines 276-278: any other exception, and the exception of the call made
\* after the loop, reach the caller.
WrapperRaise ==
    /\ fn = "generate_phrase" /\ pc = "except"
    /\ ~retry_continues(exc, tries_left)
    /\ pc' = "raised"
    /\ UNCHANGED <<serveVars, modelVars, inputVars, sampleVars, pruneVars, collectVars,
                   fn, exc, beam_width, elapsed, i, beam, ret, run, prev>>

NextSample ==
    \/ SampleCall \/ SampleStep \/ SampleFails \/ SampleReturn
    \/ WrapperRetry \/ WrapperRaise

SpecSample == InitSample /\ [][NextSample]_vars

----------------------------------------------------------------------------
(* The same request served twice: each generator is run, then run again on
   the same model, corpus, context, parameters and seed *)

\* get_suggestions asks for n=3 suggestions (line 568); the request handler
\* defaults rare_word_bonus to 1.0.
NumSuggestions == 3
DefaultBonus == 1

InitRepeat ==
    \/ InitSample
    \/ InitPhrases
    \/ /\ InitSufarr
       /\ prefix = "" /\ n = NumSuggestions /\ rare_word_bonus = DefaultBonus

\* generate_phrase again, the generator seeded again with the same seed.
SampleAgain ==
    /\ fn = "generate_phrase" /\ pc \in {"done", "raised"} /\ run = 1
    /\ prev' = Outcome
    /\ run' = 2
    /\ rng' = seed
    /\ tries_left' = Tries /\ calls' = 0
    /\ phrase' = <<>> /\ state' = <<>>
    /\ i' = 0 /\ ret' = None
    /\ pc' = "call" /\ exc' = "none"
    /\ UNCHANGED <<serveVars, modelVars, inputVars, pruneVars, collectVars, fn, beam_width,
                   elapsed, beam>>

\* generate_by_beamsearch_sufarr again; the clock of the new call starts anew.
SufarrAgain ==
    /\ fn = "generate_by_beamsearch_sufarr" /\ pc \in {"done", "raised"} /\ run = 1
    /\ prev' = Outcome
    /\ run' = 2
    /\ elapsed' = 0
    /\ i' = 0 /\ ret' = None
    /\ beam' = SufarrFirstBeam(start_words)
    /\ pc' = "search" /\ exc' = "none"
    /\ UNCHANGED <<serveVars, modelVars, inputVars, sampleVars, pruneVars, collectVars, fn,
                   beam_width>>

NextRepeat ==
    \/ NextSample \/ SampleAgain
    \/ NextPhrases
    \/ NextSufarr \/ SufarrAgain

SpecRepeat == InitRepeat /\ [][NextRepeat]_vars

----------------------------------------------------------------------------
(* The two beam searches side by side *)

InitBeams == InitPhrases \/ InitSufarr

NextBeams == NextPhrases \/ NextSufarr

SpecBeams == InitBeams /\ [][NextBeams]_vars

----------------------------------------------------------------------------
(* generate_diverse_phrases and generate_phrase_from_sufarr *)

\* Temperatures a sampling request can carry (positive).
Temperatures == {1, 2}

\* The keyword parameters next_word_probs (line 251) and
\* generate_phrase_from_sufarr (line 306) accept through **kw; any other
\* keyword makes the call raise TypeError.
FromSufarrParams == {"temperature"}

\* A parameter list that also takes the corpus-constraint flag.
NextWordProbsWithFlag ==
    {"temperature", "length_bonus_min_length", "length_bonus_amt", "pos_weights",
     "use_sufarr"}

NextWordProbsParams ==
    {"temperature", "length_bonus_min_length", "length_bonus_amt", "pos_weights"}

\* Default of length_bonus_min_length.
LengthBonusMinLength == 6

\* The attributes the Model gets on the first use of word_lengths and
\* pos_tags (lines 113-136).
LazyTables(kws) ==
    (IF "length_bonus_amt" \in kws THEN {"_word_lengths"} ELSE {})
        \cup (IF "pos_weights" \in kws THEN {"_pos_tags", "_id2tag"} ELSE {})

\* next_word_probs: the <<word id, logprob / temperature>> list that softmax
\* turns into probabilities; the length bonus (1 when passed) goes to the
\* words of at least length_bonus_min_length characters, the part-of-speech
\* weights passed are all 0.
next_word_probs(st, prev_word, plp, kws, temp) ==
    LET raw == next_word_logprobs_raw(st, prev_word, plp)
        length_bonus(w) ==
            IF "length_bonus_amt" \in kws /\ StrLen(id2str(w)) >= LengthBonusMinLength
            THEN 1 ELSE 0
    IN  [k \in 1..Len(raw) |->
            <<raw[k][1], (raw[k][2] + length_bonus(raw[k][1])) \div temp>>]

\* np.random.choice(len(p), size, p=p, replace=False): size different
\* indices, each drawn among those left with its weight; rolls the generator
\* once per index.  Returns the indices and the generator's state.
RECURSIVE choice_without_replacement(_, _, _, _)
choice_without_replacement(r, cands, left, size) ==
    IF size = 0 THEN [rng |-> r, picked |-> <<>>]
    ELSE LET at == random_choice(RngNext(r), [k \in 1..Len(left) |-> cands[left[k]]])
             rest == choice_without_replacement(
                         RngNext(r), cands,
                         [k \in 1..(Len(left) - 1) |->
                             IF k < at THEN left[k] ELSE left[k + 1]],
                         size - 1)
         IN  [rng |-> rest.rng, picked |-> <<left[at]>> \o rest.picked]

\* Lines 355-356: the first-word candidates of the call.
DiverseFirstWords ==
    next_word_probs(get_state(start_words, FALSE), start_words[Len(start_words)],
                    prefix_logprobs, kw, temperature)

\* Lines 314-315 for the first word being completed: phrase holds the words
\* generated after it.
FromSufarrNextWords ==
    LET rng_ == search_range(<<id2str(Head(chosen))>> \o phrase \o <<"">>)
    IN  collect_words_in_range(rng_[1], rng_[2], i + 1)

\* Lines 327-332: <<word id, logprob / temperature>> of the corpus words.
FromSufarrCandidates(nw) ==
    [k \in 1..Len(nw) |->
        <<vocab_index(nw[k]), LmLogProb(state, vocab_index(nw[k])) \div temperature>>]

InitDiverse ==
    /\ ModelLoaded
    /\ fn = "generate_diverse_phrases" /\ pc = "first" /\ exc = "none"
    /\ start_words \in Contexts
    /\ n \in 1..MaxN
    /\ length \in 1..MaxLength
    /\ prefix_logprobs \in {PrefixLogprobs(p) : p \in Prefixes}
    /\ temperature \in Temperatures
    /\ kw \in {{"temperature"}, {"temperature", "length_bonus_amt"},
              {"temperature", "use_sufarr"}}
    /\ seed \in 0..MaxSeed
    /\ rng = seed
    /\ side_tables = {}
    /\ chosen = <<>> /\ res = <<>>
    /\ phrase = <<>> /\ state = <<>>
    /\ i = 0
    /\ use_sufarr = None /\ caller = None
    /\ tries_left = None /\ calls = None
    /\ beam_width = None /\ prefix = None
    /\ rare_word_bonus = None /\ latency_budget = None /\ elapsed = None
    /\ beam = None /\ ret = None
    /\ NoPrune /\ NoCollect
    /\ handler = None /\ participant = None /\ connections = None /\ outbox = None
    /\ NoSockets
    /\ run = 1 /\ prev = None

diverseFrame ==
    <<modelVars, inputVars, pruneVars, collectVars, requestVars, appVars, wsVars,
      fn, beam_width, elapsed, beam, tries_left, calls, run, prev>>

\* Line 356 with keywords next_word_probs does not accept: TypeError.
DiverseBadKeyword ==
    /\ fn = "generate_diverse_phrases" /\ pc = "first"
    /\ ~(kw \subseteq NextWordProbsParams)
    /\ pc' = "raised" /\ exc' = "TypeError"
    /\ UNCHANGED <<diverseFrame, side_tables, diverseVars, rng, phrase, state, i, ret>>

\* Lines 355-358: no first-word candidate: the empty list is returned.
DiverseNone ==
    /\ fn = "generate_diverse_phrases" /\ pc = "first"
    /\ kw \subseteq NextWordProbsParams
    /\ DiverseFirstWords = <<>>
    /\ ret' = <<>> /\ pc' = "done"
    /\ UNCHANGED <<diverseFrame, side_tables, diverseVars, rng, phrase, state, i, exc>>

\* Lines 355-360: min(len(first_words), n) first words are drawn without
\* replacement; the side tables the keywords ask for are built on the Model.
DiverseDraw ==
    /\ fn = "generate_diverse_phrases" /\ pc = "first"
    /\ kw \subseteq NextWordProbsParams
    /\ DiverseFirstWords # <<>>
    /\ \E cands \in {DiverseFirstWords} :
         \E drawn \in {choice_without_replacement(
                           rng, cands, [k \in 1..Len(cands) |-> k],
                           IF Len(cands) < n THEN Len(cands) ELSE n)} :
            /\ chosen' = [k \in 1..Len(drawn.picked) |-> cands[drawn.picked[k]][1]]
            /\ rng' = drawn.rng
    /\ side_tables' = side_tables \cup LazyTables(kw)
    /\ res' = <<>>
    /\ pc' = "call"
    /\ UNCHANGED <<diverseFrame, phrase, state, i, exc, ret>>

\* Line 364 and lines 307-312: generate_phrase_from_sufarr is called for the
\* next first word; a keyword it does not accept raises TypeError.
DiverseCall ==
    /\ fn = "generate_diverse_phrases" /\ pc = "call" /\ chosen # <<>>
    /\ IF kw \subseteq FromSufarrParams
       THEN /\ state' = IF start_words[1] = "<s>"
                        THEN get_state(Tail(start_words) \o <<id2str(Head(chosen))>>,
                                       TRUE)
                        ELSE get_state(Append(start_words, id2str(Head(chosen))),
                                       FALSE)
            /\ phrase' = <<>> /\ i' = 0
            /\ pc' = "step" /\ exc' = exc
       ELSE /\ pc' = "raised" /\ exc' = "TypeError"
            /\ UNCHANGED <<phrase, state, i>>
    /\ UNCHANGED <<diverseFrame, side_tables, diverseVars, rng, ret>>

\* Lines 314-342: one word found in the corpus is drawn and appended.
DiverseStep ==
    /\ fn = "generate_diverse_phrases" /\ pc = "step" /\ i < length - 1
    /\ FromSufarrNextWords.ok /\ FromSufarrNextWords.words # <<>>
    /\ rng' = RngNext(rng)
    /\ LET nw == FromSufarrNextWords.words
           cands == FromSufarrCandidates(nw)
           picked_subidx == random_choice(rng', cands)
       IN  /\ state' = NextState(state, cands[picked_subidx][1])
           /\ phrase' = Append(phrase, nw[picked_subidx])
    /\ i' = i + 1
    /\ UNCHANGED <<diverseFrame, side_tables, diverseVars, pc, exc, ret>>

\* Lines 325-326 (and the read of line 232 past the end of a document): the
\* corpus has no continuation; the exception leaves generate_diverse_phrases.
DiverseFails ==
    /\ fn = "generate_diverse_phrases" /\ pc = "step" /\ i < length - 1
    /\ ~(FromSufarrNextWords.ok /\ FromSufarrNextWords.words # <<>>)
    /\ exc' = IF FromSufarrNextWords.ok THEN GenerationFailedException
              ELSE "IndexError"
    /\ pc' = "raised"
    /\ UNCHANGED <<diverseFrame, side_tables, diverseVars, rng, phrase, state, i, ret>>

\* Lines 343 and 365: the phrase is complete and joins the result.
DiverseAppend ==
    /\ fn = "generate_diverse_phrases" /\ pc = "step" /\ i = length - 1
    /\ res' = Append(res, <<id2str(Head(chosen))>> \o phrase)
    /\ chosen' = Tail(chosen)
    /\ pc' = "call"
    /\ UNCHANGED <<diverseFrame, side_tables, rng, phrase, state, i, exc, ret>>

\* Line 366.
DiverseReturn ==
    /\ fn = "generate_diverse_phrases" /\ pc = "call" /\ chosen = <<>>
    /\ ret' = res /\ pc' = "done"
    /\ UNCHANGED <<diverseFrame, side_tables, diverseVars, rng, phrase, state, i, exc>>

NextDiverse ==
    \/ DiverseBadKeyword \/ DiverseNone \/ DiverseDraw \/ DiverseCall
    \/ DiverseStep \/ DiverseFails \/ DiverseAppend \/ DiverseReturn

SpecDiverse == InitDiverse /\ [][NextDiverse]_vars

----------------------------------------------------------------------------
(* get_suggestions: the request is handed to one of the generators *)

\* beam_search_phrases run from its first beam through the loop
\* `for i in range(length)` (no pass when length <= 0).
RECURSIVE PhrasesRun(_, _, _, _, _)
PhrasesRun(bm, k, plp, len, width) ==
    IF k >= len THEN bm
    ELSE CHOOSE out \in {PhrasesRun(new_beam, k + 1, plp, len, width) :
                            new_beam \in {PhrasesNewBeam(bm, k, plp, len, width)}} :
            TRUE

beam_search_phrases(sw, width, len, plp) ==
    sorted_reverse(PhrasesRun(PhrasesFirstBeam(sw), 0, plp, len, width))

\* Beam width of the first-word search of generate_by_beamsearch_ngram.
FirstWordWidth == 10

\* generate_by_beamsearch_ngram: the k best first words, each followed by
\* the best continuation found for it.
generate_by_beamsearch_ngram(toks, k, len, plp, width) ==
    CHOOSE result \in
        {[j \in 1..(IF k < Len(found) THEN k ELSE Len(found)) |->
             LET ent == found[j]
                 continuations ==
                     beam_search_phrases(toks \o ent.words, width,
                                         len - ent.num_chars, NoPrefixes)
             IN  ent.words \o (IF Len(continuations) > 0
                               THEN continuations[1].words ELSE <<>>)] :
            found \in {beam_search_phrases(toks, FirstWordWidth, 1, plp)}} : TRUE

\* Keywords the two beam-search generators accept from **kw besides those
\* get_suggestions passes itself (lines 427, 481, 494).
BeamSufarrParams == {"latency_budget"}
BeamNgramParams == {}

\* Phrase length asked of generate_diverse_phrases (line 575).
SampledLength == 6

\* A call of get_suggestions is being served.
InRequest == caller = "get_suggestions"

InitSuggest ==
    /\ ModelLoaded
    /\ fn = "get_suggestions" /\ pc = "dispatch" /\ exc = "none"
    /\ start_words \in Contexts
    /\ prefix \in Prefixes
    /\ prefix_logprobs = PrefixLogprobs(prefix)
    /\ rare_word_bonus \in 0..MaxBonus
    /\ use_sufarr \in BOOLEAN
    /\ caller = "get_suggestions"
    /\ temperature \in {0} \cup Temperatures
    /\ kw \in {{}, {"length_bonus_amt"}, {"pos_weights"}}
    /\ length \in 1..MaxLength
    /\ n = NumSuggestions
    /\ beam_width = MaxWidth
    /\ seed \in (IF temperature = 0 THEN {0} ELSE 0..MaxSeed)
    /\ rng = seed
    /\ side_tables = {}
    /\ latency_budget = LatencyBudget /\ elapsed = 0
    /\ i = 0
    /\ beam = <<>> /\ ret = None
    /\ chosen = <<>> /\ res = <<>>
    /\ phrase = <<>> /\ state = <<>>
    /\ tries_left = None /\ calls = None
    /\ NoPrune /\ NoCollect
    /\ handler = None /\ participant = None /\ connections = None /\ outbox = None
    /\ NoSockets
    /\ run = 1 /\ prev = None

suggestFrame ==
    <<modelVars, start_words, prefix_logprobs, prefix, n, rare_word_bonus,
      latency_budget, seed, sampleVars, pruneVars, collectVars, temperature,
      use_sufarr, caller, side_tables, diverseVars, appVars, wsVars, beam_width,
      elapsed,
      i, run, prev>>

\* Lines 565-568: temperature == 0 with the flag set: the corpus-constrained
\* beam search serves the request (TypeError for a keyword it does not know).
SuggestSufarr ==
    /\ fn = "get_suggestions" /\ pc = "dispatch"
    /\ temperature = 0 /\ use_sufarr
    /\ IF kw \subseteq BeamSufarrParams
       THEN /\ fn' = "generate_by_beamsearch_sufarr" /\ pc' = "search"
            /\ beam' = SufarrFirstBeam(start_words)
            /\ exc' = exc
       ELSE /\ fn' = "generate_by_beamsearch_sufarr" /\ pc' = "raised"
            /\ exc' = "TypeError"
            /\ beam' = beam
    /\ UNCHANGED <<suggestFrame, kw, length, ret>>

\* Lines 569-571: temperature == 0 without the flag: the plain beam search
\* serves the request.
SuggestNgram ==
    /\ fn = "get_suggestions" /\ pc = "dispatch"
    /\ temperature = 0 /\ ~use_sufarr
    /\ fn' = "generate_by_beamsearch_ngram"
    /\ IF kw \subseteq BeamNgramParams
       THEN /\ ret' = generate_by_beamsearch_ngram(start_words, n, length,
                                                   prefix_logprobs, beam_width)
            /\ pc' = "done" /\ exc' = exc
       ELSE /\ pc' = "raised" /\ exc' = "TypeError" /\ ret' = ret
    /\ UNCHANGED <<suggestFrame, kw, length, beam>>

\* Lines 572-575: any other temperature: generate_diverse_phrases is called
\* for 3 phrases of 6 words with temperature and use_sufarr among its **kw.
SuggestDiverse ==
    /\ fn = "get_suggestions" /\ pc = "dispatch"
    /\ temperature # 0
    /\ fn' = "generate_diverse_phrases" /\ pc' = "first"
    /\ kw' = kw \cup {"temperature", "use_sufarr"}
    /\ length' = SampledLength
    /\ UNCHANGED <<suggestFrame, exc, beam, ret>>

NextSuggest ==
    \/ SuggestSufarr \/ SuggestNgram \/ SuggestDiverse
    \/ NextSufarr \/ NextDiverse

\* The calls start at get_suggestions or, for callers that sample on their
\* own, at generate_diverse_phrases.
SpecSuggest == (InitSuggest \/ InitDiverse) /\ [][NextSuggest]_vars

----------------------------------------------------------------------------
(* app.py: WebsocketHandler.on_message on one connection *)

MaxSent == 1         \* messages written to the connection that are recorded
MaxConnections == 2  \* entries of Participant.connections

\* This connection, and another connection of the same participant.
ThisConn == "c1"
OtherConn == "c2"

\* participantId values of an 'init' message, spelled out: a demo id, a
\* hexadecimal id, and an id that fails the hexdigits assertion.
ParticipantIds == {<<"d", "e", "m", "o", "1">>, <<"a", "b">>, <<"z", "z">>}

\* self.participant = None, and the participant_id of DemoParticipant.
NoParticipant == <<>>
DemoParticipant == <<"D", "E", "M", "O">>

\* participant_id.startswith('demo')
IsDemo(id) == Len(id) >= 4 /\ SubSeq(id, 1, 4) = <<"d", "e", "m", "o">>

\* all(x in string.hexdigits for x in participant_id)
IsHex(id) ==
    \A k \in 1..Len(id) :
        id[k] \in {"0", "1", "2", "3", "4", "5", "6", "7", "8", "9",
                   "a", "b", "c", "d", "e", "f", "A", "B", "C", "D", "E", "F"}

\* A handler `except GenerationFailedException`: it contains the dead-end
\* signal of the core and nothing else.
raised_only_failure(e) == e = GenerationFailedException

\* `except Exception` (line 169): every exception the core and the handler
\* body raise is a subclass of Exception.
caught(e) ==
    e \in {"TypeError", "IndexError", "AssertionError", "KeyError", "ValueError",
           GenerationFailedException}

\* The locals of a get_suggestions call that is over (or not yet made).
NoCall ==
    /\ start_words = <<>> /\ prefix = "" /\ prefix_logprobs = NoPrefixes
    /\ rare_word_bonus = 0 /\ use_sufarr = FALSE /\ temperature = 0
    /\ kw = {} /\ length = 0 /\ n = 0 /\ beam_width = 0
    /\ seed = 0 /\ rng = 0
    /\ latency_budget = LatencyBudget /\ elapsed = 0
    /\ i = 0 /\ beam = <<>> /\ ret = None
    /\ chosen = <<>> /\ res = <<>>
    /\ phrase = <<>> /\ state = <<>>

InitApp ==
    /\ ModelLoaded
    /\ NoSockets
    /\ handler = "idle" /\ participant = NoParticipant
    /\ connections \in {<<>>, <<OtherConn>>}
    /\ outbox = <<>>
    /\ side_tables = {}
    /\ fn = None /\ pc = None /\ exc = "none"
    /\ caller = None
    /\ NoCall
    /\ tries_left = None /\ calls = None
    /\ NoPrune /\ NoCollect
    /\ run = 1 /\ prev = None

workerFrame ==
    <<modelVars, tries_left, calls, pruneVars, collectVars, run, prev, side_tables,
      wsVars>>
coreVars ==
    <<fn, pc, exc, start_words, beam_width, length, prefix_logprobs, prefix, n,
      rare_word_bonus, latency_budget, elapsed, i, beam, ret, seed, rng, phrase,
      state, requestVars, diverseVars>>

\* The coroutine is through with the future: of the call only its outcome
\* (which generator, returned or raised, the exception) is kept.
CallOver ==
    /\ start_words' = <<>> /\ prefix' = "" /\ prefix_logprobs' = NoPrefixes
    /\ rare_word_bonus' = 0 /\ use_sufarr' = FALSE /\ temperature' = 0
    /\ kw' = {} /\ length' = 0 /\ n' = 0 /\ beam_width' = 0
    /\ seed' = 0 /\ rng' = 0
    /\ latency_budget' = LatencyBudget /\ elapsed' = 0
    /\ i' = 0 /\ beam' = <<>> /\ ret' = None
    /\ chosen' = <<>> /\ res' = <<>>
    /\ phrase' = <<>> /\ state' = <<>>
    /\ UNCHANGED <<fn, pc, exc, caller>>

\* Lines 136-142: a 'requestSuggestions' message: get_suggestions is
\* submitted to the process pool and the coroutine waits for its result.
OnRequestSuggestions ==
    /\ handler = "idle"
    /\ handler' = "waiting"
    /\ fn' = "get_suggestions" /\ pc' = "dispatch" /\ exc' = "none"
    /\ caller' = "get_suggestions"
    /\ start_words' \in Contexts
    /\ prefix' \in Prefixes
    /\ prefix_logprobs' = PrefixLogprobs(prefix')
    /\ rare_word_bonus' = DefaultBonus
    /\ use_sufarr' \in BOOLEAN
    /\ temperature' \in {0} \cup Temperatures
    /\ kw' = {}
    /\ length' = MaxLength
    /\ n' = NumSuggestions
    /\ beam_width' = MaxWidth
    /\ seed' = 0 /\ rng' = 0
    /\ latency_budget' = LatencyBudget /\ elapsed' = 0
    /\ i' = 0 /\ beam' = <<>> /\ ret' = None
    /\ chosen' = <<>> /\ res' = <<>>
    /\ phrase' = <<>> /\ state' = <<>>
    /\ UNCHANGED <<workerFrame, participant, connections, outbox>>

\* Line 138 on a message without 'sofar' or 'cur_word': KeyError, caught at
\* line 169.
OnRequestMalformed ==
    /\ handler = "idle"
    /\ handler' = IF caught("KeyError") THEN "idle" ELSE "escaped"
    /\ UNCHANGED <<workerFrame, coreVars, participant, connections, outbox>>

\* Lines 143-146: the future holds the phrases: the 'suggestions' message
\* is written to the connection.
OnSuggestionsReady ==
    /\ handler = "waiting" /\ pc = "done"
    /\ outbox' = IF Len(outbox) < MaxSent THEN Append(outbox, "suggestions")
                 ELSE outbox
    /\ handler' = "idle"
    /\ CallOver
    /\ UNCHANGED <<workerFrame, participant, connections>>

\* Lines 137 and 169-170: the future holds an exception of the core, which
\* the yield raises inside the try block.
OnSuggestionsFailed ==
    /\ handler = "waiting" /\ pc = "raised"
    /\ handler' = IF caught(exc) THEN "idle" ELSE "escaped"
    /\ CallOver
    /\ UNCHANGED <<workerFrame, participant, connections, outbox>>

\* Lines 151-160: an 'init' message.
OnInit ==
    /\ handler = "idle"
    /\ \E participant_id \in ParticipantIds :
          IF IsDemo(participant_id)
          THEN /\ participant' = DemoParticipant
               /\ UNCHANGED <<connections, handler>>
          ELSE IF IsHex(participant_id)
          THEN /\ Len(connections) < MaxConnections
               /\ participant' = participant_id
               /\ connections' = Append(connections, ThisConn)
               /\ UNCHANGED handler
          ELSE \* the assertion of line 157 fails: line 169
               /\ handler' = IF caught("AssertionError") THEN "idle"
                             ELSE "escaped"
               /\ UNCHANGED <<participant, connections>>
    /\ UNCHANGED <<workerFrame, coreVars, outbox>>

NextApp ==
    \/ OnRequestSuggestions \/ OnRequestMalformed
    \/ OnSuggestionsReady \/ OnSuggestionsFailed
    \/ OnInit
    \/ SuggestSufarr \/ SuggestNgram \/ SuggestDiverse
    \/ NextSufarr \/ DiverseBadKeyword

SpecApp == InitApp /\ [][NextApp]_vars

----------------------------------------------------------------------------
(* app.py: participants and their websocket connections *)

\* The websocket handlers that exist over the run.
Conns == {ThisConn, OtherConn, "c3"}

\* participantId values of 'init' messages: those of ParticipantIds and a
\* second hexadecimal id.
WsParticipantIds == ParticipantIds \cup {<<"c", "d">>}

\* No broadcast was made by the last event.
NoBroadcast == [from |-> None, to |-> <<>>]

\* Participant.get_participant (lines 53-58): the participant of the id is
\* created, with an empty connection list, when it is not active yet.
get_participant(ap, participant_id) ==
    IF participant_id \in DOMAIN ap THEN ap
    ELSE [p \in DOMAIN ap \cup {participant_id} |->
            IF p = participant_id THEN <<>> ELSE ap[p]]

\* Participant.connected (lines 85-87): self.connections.append(client).
connected(conns, client) == Append(conns, client)

\* client in self.connections
Listed(conns, client) == \E k \in 1..Len(conns) : conns[k] = client

\* list.remove(client): the first occurrence is taken out (Participant.
\* disconnected, line 90); callers check Listed first.
list_remove(conns, client) ==
    LET k == CHOOSE j \in 1..Len(conns) :
                 conns[j] = client /\ \A l \in 1..(j - 1) : conns[l] # client
    IN  SubSeq(conns, 1, k - 1) \o SubSeq(conns, k + 1, Len(conns))

\* Participant.broadcast (lines 80-83): the connections of the list that are
\* not exclude_conn, in list order, one send_json each.
broadcast(conns, exclude_conn) ==
    SelectSeq(conns, LAMBDA conn : conn # exclude_conn)

\* The send_json calls broadcast makes: write_message on a closed connection
\* may raise and end the loop at that call (stops), or not.
send_calls(conns, exclude_conn, socks, stops) ==
    LET to == broadcast(conns, exclude_conn)
        shut == {k \in 1..Len(to) : ~socks[to[k]].open}
    IN  IF stops /\ shut # {}
        THEN SubSeq(to, 1, CHOOSE k \in shut : \A l \in shut : k <= l)
        ELSE to

\* WebsocketHandler.__init__ (lines 120-125) for every handler, and the
\* module-level active_participants = {} (line 48).
InitWs ==
    /\ lm = 0
    /\ unfiltered_bigrams = encode_unfiltered
    /\ filtered_bigrams = encode_filtered
    /\ fn = None /\ pc = None /\ exc = "none"
    /\ start_words = None /\ beam_width = None /\ length = None
    /\ prefix_logprobs = None /\ prefix = None /\ n = None
    /\ rare_word_bonus = None /\ latency_budget = None /\ elapsed = None
    /\ seed = None /\ i = None /\ beam = None /\ ret = None
    /\ NoSample /\ NoPrune /\ NoCollect
    /\ run = 1 /\ prev = None
    /\ temperature = None /\ use_sufarr = None /\ kw = None /\ caller = None
    /\ side_tables = None /\ chosen = None /\ res = None
    /\ handler = None /\ participant = None /\ connections = None
    /\ outbox = None
    /\ active_participants = << >>
    /\ sockets = [c \in Conns |-> [open |-> TRUE, participant |-> NoParticipant]]
    /\ delivered = NoBroadcast
    /\ close_exc = "none"

wsFrame ==
    <<modelVars, inputVars, sampleVars, pruneVars, collectVars, requestVars,
      side_tables, diverseVars, appVars, fn, pc, exc, beam_width, elapsed, i,
      beam, ret, run, prev>>

\* on_message, lines 151-160: an 'init' message on an open connection.
WsInit ==
    \E c \in Conns, participant_id \in WsParticipantIds, stops \in BOOLEAN :
        /\ sockets[c].open
        /\ IF IsDemo(participant_id)
           THEN /\ sockets' = [sockets EXCEPT ![c].participant = DemoParticipant]
                /\ delivered' = NoBroadcast
                /\ UNCHANGED active_participants
           ELSE IF IsHex(participant_id)
           THEN LET ap == get_participant(active_participants, participant_id)
                IN  /\ Len(ap[participant_id]) < MaxConnections
                    /\ active_participants' =
                           [ap EXCEPT ![participant_id] = connected(@, c)]
                    /\ sockets' = [sockets EXCEPT ![c].participant = participant_id]
                    /\ delivered' =
                           [from |-> c,
                            to |-> send_calls(active_participants'[participant_id],
                                              c, sockets', stops)]
           ELSE \* the assertion of line 157 fails: line 169
                /\ delivered' = NoBroadcast
                /\ UNCHANGED <<active_participants, sockets>>
        /\ UNCHANGED <<wsFrame, close_exc>>

\* on_message, lines 161-164: a 'log' message on an open connection.  Without
\* a participant line 163 raises AttributeError, caught at line 169; the demo
\* participant logs and broadcasts nothing.
WsLog ==
    \E c \in Conns, stops \in BOOLEAN :
        /\ sockets[c].open
        /\ delivered' =
               IF sockets[c].participant \in {NoParticipant, DemoParticipant}
               THEN NoBroadcast
               ELSE [from |-> c,
                     to |-> send_calls(active_participants[sockets[c].participant],
                                       c, sockets, stops)]
        /\ UNCHANGED <<wsFrame, active_participants, sockets, close_exc>>

\* on_close, lines 115-117, called once when the connection has closed.
\* DemoParticipant has no attribute 'disconnected'; list.remove raises
\* ValueError for a client that is not in the list.
WsClose ==
    \E c \in Conns :
        LET p == sockets[c].participant IN
        /\ sockets[c].open
        /\ sockets' = [sockets EXCEPT ![c].open = FALSE]
        /\ delivered' = NoBroadcast
        /\ IF p = NoParticipant
           THEN close_exc' = "none" /\ UNCHANGED active_participants
           ELSE IF p = DemoParticipant
           THEN close_exc' = "AttributeError" /\ UNCHANGED active_participants
           ELSE IF Listed(active_participants[p], c)
           THEN /\ close_exc' = "none"
                /\ active_participants' =
                       [active_participants EXCEPT ![p] = list_remove(@, c)]
           ELSE close_exc' = "ValueError" /\ UNCHANGED active_participants
        /\ UNCHANGED wsFrame

NextWs == WsInit \/ WsLog \/ WsClose

SpecWs == InitWs /\ [][NextWs]_vars

----------------------------------------------------------------------------
(* Claims *)

\* The k highest entries of a set (all of them when there are fewer).
TopEntries(S, k) == {e \in S : Cardinality({f \in S : EntryLess(e, f)}) < k}

\* Everything that competes for the beam at step k: the completed entries
\* carried over and all expansions of the active ones.
PhrasesPool(bm, k, plp, len) ==
    {bm[j] : j \in {l \in 1..Len(bm) : bm[l].done}}
        \cup Range(PhrasesCandidates(bm, k, plp, len))

\* C1: in beam_search_phrases, after every step the new beam is exactly the
\* beam_width highest-scoring entries among the completed entries carried
\* over and all expansions of the active entries.
C1_BeamIsTopWidth ==
    [][(fn = "beam_search_phrases" /\ pc = "loop" /\ i' = i + 1)
        => Range(beam') =
             TopEntries(PhrasesPool(beam, i, prefix_logprobs, length), beam_width)]_vars

\* Two finished calls of beam_search_phrases on the same model, context,
\* length and prefixes, the second with the wider beam.
PhrasesWidened ==
    /\ fn = "beam_search_phrases" /\ pc = "done" /\ run = 2
    /\ prev.beam_width < beam_width

TwoStepLength == 3

SufarrReturned ==
    fn = "generate_by_beamsearch_sufarr" /\ pc \in {"extract", "done"}

\* C3: when the latency budget is never exceeded, for every entry returned
\* by beam_search_sufarr the last context token followed by the entry's
\* words occurs as a contiguous run of tokens of one corpus document.
C3_InCorpus ==
    (SufarrReturned /\ i = length)
        => \A e \in Range(beam) :
              InCorpus(<<start_words[Len(start_words)]>> \o e.words)

\* A search that ran all its steps within the budget and returned a phrase
\* of three corpus tokens.
C3_Witness ==
    /\ SufarrReturned /\ i = length /\ ~BudgetExceeded(elapsed, latency_budget)
    /\ \E e \in Range(beam) : Len(e.words) >= 3

\* C4: exceeding the latency budget is not an error: when the budget is
\* found exceeded before a step (the first included), the search returns
\* the beam as it stood and generate_by_beamsearch_sufarr returns a
\* suggestion list built from it without raising.
C4_BudgetNoError ==
    (fn = "generate_by_beamsearch_sufarr" /\ BudgetExceeded(elapsed, latency_budget))
        => /\ pc # "raised"
           /\ pc = "done" => Len(ret) >= 1

\* The first word of a phrase as the caller receives it.
ShownFirstWords(phrases) ==
    {phrases[l][1] : l \in {k \in 1..Len(phrases) : phrases[k] # <<>>}}

\* C5: generate_by_beamsearch_sufarr never returns two results with the
\* same first word (after the marker tokens are stripped) unless fewer than
\* n distinct first words exist among all beam-search candidates.
C5_DistinctFirstWords ==
    (fn = "generate_by_beamsearch_sufarr" /\ pc = "done")
        => \/ \A a, b \in 1..Len(ret) :
                (a # b /\ ret[a] # <<>> /\ ret[b] # <<>>) => ret[a][1] # ret[b][1]
           \/ Cardinality(ShownFirstWords(
                  [l \in 1..Len(beam) |-> StripMarkers(beam[l].words)])) < n

\* An active entry of the beam has no continuation in the corpus at the
\* step about to run.
SufarrDeadEnd ==
    /\ fn = "generate_by_beamsearch_sufarr" /\ pc = "search" /\ i < length
    /\ \E l \in 1..Len(beam) :
          /\ ~beam[l].done
          /\ SufarrNextWords(beam[l], i, start_words, SufarrPrefix).ok
          /\ SufarrNextWords(beam[l], i, start_words, SufarrPrefix).words = <<>>

\* C10: in the beam searches an active entry with zero expansion candidates
\* is dropped from the next beam and the search continues; the step raises
\* no exception, whichever step it is (the first included).
C10_DeadEndDropped ==
    [][SufarrDeadEnd => pc' # "raised"]_vars

\* C6: after prune_bigrams returns, every successor listed under a word of
\* unfiltered_bigrams is itself a key of unfiltered_bigrams with a
\* non-empty successor list.
C6_NoDeadBranches ==
    (fn = "prune_bigrams" /\ pc = "done")
        => \A k \in DOMAIN unfiltered_bigrams :
              \A j \in 1..Len(unfiltered_bigrams[k]) :
                 /\ unfiltered_bigrams[k][j] \in DOMAIN unfiltered_bigrams
                 /\ unfiltered_bigrams[unfiltered_bigrams[k][j]] # <<>>

\* The suffix of rank r.
RankSuffix(r) == Suffix(doc_idx(r), tok_idx(r))

\* The suffixes of the ranks [from, end) all share their first depth tokens.
SharedPrefix(from, end, depth) ==
    \A r \in from..(end - 1) :
        /\ Len(RankSuffix(r)) >= depth
        /\ SubSeq(RankSuffix(r), 1, depth) = SubSeq(RankSuffix(from), 1, depth)

\* Brute-force scan of the ranks [from, end): the tokens found at offset
\* depth, each once, in order of first occurrence.
RECURSIVE BruteForce(_, _, _, _)
BruteForce(from, end, depth, seen) ==
    IF from >= end THEN seen
    ELSE IF Len(RankSuffix(from)) > depth
            /\ RankSuffix(from)[depth + 1] \notin Range(seen)
    THEN BruteForce(from + 1, end, depth, Append(seen, RankSuffix(from)[depth + 1]))
    ELSE BruteForce(from + 1, end, depth, seen)

\* collect_words_in_range is called on a range the claim is about.
CollectShared ==
    fn = "collect_words_in_range" /\ SharedPrefix(lo, after_end, word_idx)

\* Every suffix of the range has a token at offset word_idx.
CollectLong ==
    \A r \in lo..(after_end - 1) : Len(RankSuffix(r)) > word_idx

\* C7 (as claimed): on every rank range whose suffixes all share their first
\* word_idx tokens, collect_words_in_range terminates and returns exactly
\* the distinct tokens found at offset word_idx over the range, each once,
\* in order of first occurrence (the empty list when the range is empty).
C7_CollectExact ==
    /\ [](CollectShared =>
            /\ pc # "raised"
            /\ pc = "done" => words = BruteForce(lo, after_end, word_idx, <<>>))
    /\ <>(CollectShared => pc = "done")

\* C7 (amended): the same, on the ranges whose suffixes moreover all have
\* more than word_idx tokens; on a range with a suffix that ends after
\* word_idx tokens the call does not return.
C7_CollectExactLong ==
    /\ []((CollectShared /\ CollectLong) =>
            /\ pc # "raised"
            /\ pc = "done" => words = BruteForce(lo, after_end, word_idx, <<>>))
    /\ []((CollectShared /\ lo = after_end) => (pc = "done" => words = <<>>))
    /\ []((CollectShared /\ ~CollectLong) => pc # "done")
    /\ <>((CollectShared /\ CollectLong) => pc = "done")

\* A call that returned two different tokens of offset 1 or more from a
\* range in which a token repeats.
C7_Witness ==
    /\ CollectShared /\ CollectLong /\ pc = "done"
    /\ word_idx >= 1 /\ Len(words) >= 2
    /\ after_end - lo > Len(words)

\* C9: generate_phrase is retried as a whole up to 10 times when a step has
\* no candidates: GenerationFailedException reaches the caller only after
\* the first call and all 10 retries have failed, a failed call is retried
\* as long as retries are left, any other exception reaches the caller at
\* once without another call, and the words of the first call that
\* succeeds are returned.
C9_RetryTenTimes ==
    /\ []((fn = "generate_phrase" /\ pc = "raised" /\ exc = GenerationFailedException)
            => calls = Tries + 1)
    /\ []((fn = "generate_phrase" /\ pc = "done") => calls <= Tries + 1)
    /\ [][(fn = "generate_phrase" /\ pc = "except"
             /\ exc = GenerationFailedException /\ calls <= Tries)
            => (pc' = "call" /\ calls' = calls)]_vars
    /\ [][(fn = "generate_phrase" /\ pc = "except" /\ exc # GenerationFailedException)
            => (pc' = "raised" /\ exc' = exc /\ calls' = calls)]_vars
    /\ [][(fn = "generate_phrase" /\ pc = "step" /\ i = length)
            => (pc' = "done" /\ calls' = calls
                /\ ret' = SubSeq(phrase, Len(start_words) + 1, Len(phrase)))]_vars

\* A phrase returned by a call that followed at least one failed call.
C9_Witness ==
    /\ fn = "generate_phrase" /\ pc = "done" /\ run = 1
    /\ calls >= 2 /\ calls <= Tries
    /\ Len(ret) = length

\* A generator has been run twice on the same inputs and both runs are over.
Repeated ==
    /\ run = 2 /\ pc \in {"done", "raised"}
    /\ fn = "beam_search_phrases" => beam_width = prev.beam_width

\* The second run ended as the first one did.
SameOutcome ==
    /\ pc = prev.pc /\ exc = prev.exc
    /\ pc = "done" => ret = prev.ret

WithinBudgetTwice ==
    fn = "generate_by_beamsearch_sufarr"
        => (elapsed <= latency_budget /\ prev.elapsed <= latency_budget)

SufarrDeadEndNotEos ==
    /\ fn = "generate_by_beamsearch_sufarr" /\ pc = "search" /\ i < length
    /\ \E l \in 1..Len(beam) :
          /\ ~beam[l].done
          /\ SufarrNextWords(beam[l], i, start_words, SufarrPrefix).ok
          /\ SufarrNextWords(beam[l], i, start_words, SufarrPrefix).words = <<>>
          /\ \/ beam[l].last_word_idx = NoWord
             \/ id2str(beam[l].last_word_idx) # "</S>"
          /\ SufarrCandidates(SubSeq(beam, 1, l - 1), 1, i, start_words,
                              SufarrPrefix, length, rare_word_bonus).exc = "none"

\* C11: in beam_search_sufarr, when an active entry has no corpus
\* continuation and its most recent word is not '</S>', a step that runs
\* within the budget raises an assertion failure (not
\* GenerationFailedException) and the entry is not silently dropped.
C11_AssertionOnDeadEnd ==
    [][(SufarrDeadEndNotEos /\ pc' # "extract")
        => (pc' = "raised" /\ exc' = "AssertionError")]_vars

\* One of the two beam searches is running or has run.
InBeamSearch == fn \in {"beam_search_phrases", "generate_by_beamsearch_sufarr"}

\* C12: in every beam of either beam search, an entry produced by an
\* expansion is completed if and only if its character count is at least the
\* target length, and the initial entry (no word, zero characters) is active.
C12_DoneIffLongEnough ==
    InBeamSearch =>
        \A l \in 1..Len(beam) :
            IF beam[l].words = <<>>
            THEN ~beam[l].done /\ beam[l].num_chars = 0
            ELSE beam[l].done <=> (beam[l].num_chars >= length)

\* A beam of the corpus-constrained search that holds a completed entry next
\* to an expanded entry that is still active.
C12_Witness ==
    /\ fn = "generate_by_beamsearch_sufarr"
    /\ \E a, b \in 1..Len(beam) :
          /\ beam[a].done /\ beam[a].num_chars >= length
          /\ ~beam[b].done /\ beam[b].words # <<>> /\ beam[b].num_chars < length

\* The word list a is the beginning of the word list b.
IsWordPrefix(a, b) == Len(a) <= Len(b) /\ SubSeq(b, 1, Len(a)) = a

\* C13: in both beam searches a completed entry is never expanded: every
\* entry of the next beam whose words begin with the words of a completed
\* entry is that entry itself, with the same score, words, character count
\* and completion flag.
C13_DonePassThrough ==
    [][(InBeamSearch /\ i' = i + 1)
        => \A a \in 1..Len(beam) : \A b \in 1..Len(beam') :
              (beam[a].done /\ IsWordPrefix(beam[a].words, beam'[b].words))
                  => beam'[b] = beam[a]]_vars

\* A beam in which a completed entry has been carried through a step while
\* an active entry was expanded by that step.
C13_Witness ==
    /\ InBeamSearch /\ i >= 2
    /\ \E a, b \in 1..Len(beam) :
          /\ beam[a].done /\ Len(beam[a].words) < i
          /\ Len(beam[b].words) = i

\* The scores of a list of entries never increase along the list.
ScoresDescending(ents) ==
    \A a, b \in 1..Len(ents) : a < b => ents[a].score >= ents[b].score

\* The list of entries a beam search has returned: the sorted beam of
\* beam_search_phrases, the beam beam_search_sufarr hands to the extraction.
BeamReturned ==
    \/ fn = "beam_search_phrases" /\ pc = "done"
    \/ fn = "generate_by_beamsearch_sufarr" /\ pc = "extract"

ReturnedEntries == IF fn = "beam_search_phrases" THEN ret ELSE beam

\* C17: both beam searches run at most `length` expansion steps (every
\* change of the beam inside a call is one counted step), after every step
\* the beam holds at most beam_width entries, and the returned list is
\* ordered by score from highest to lowest.
C17_BoundedSortedBeam ==
    /\ [](InBeamSearch =>
            /\ i <= length
            /\ Len(beam) <= beam_width
            /\ (BeamReturned => ScoresDescending(ReturnedEntries)))
    /\ [][(InBeamSearch /\ run' = run /\ beam' # beam)
            => (i < length /\ i' = i + 1)]_vars

\* A corpus-constrained search returns a full beam of entries with different
\* scores after all `length` steps.
C17_Witness ==
    /\ fn = "generate_by_beamsearch_sufarr" /\ pc = "extract" /\ i = length
    /\ length >= 2
    /\ beam_width >= 2 /\ Len(beam) = beam_width
    /\ beam[1].score > beam[Len(beam)].score

\* The entries of the next beam that the step in progress has built, each
\* with the active entry it extends by one word.
Expansions ==
    {<<p, f>> \in Range(beam) \X Range(beam') :
        /\ ~p.done
        /\ Len(f.words) = Len(p.words) + 1
        /\ SubSeq(f.words, 1, Len(p.words)) = p.words}

\* The word is neither punctuation nor a marker, its id is above the
\* reserved ids, and it is not among the words generated so far.
BonusEligible(word, ws) ==
    /\ Spell(word)[1] \notin {"<", ".", "!", "?"}
    /\ vocab_index(word) > RareIdThreshold
    /\ word \notin Range(ws)

\* Parent score plus log-probability of the new word after the context and
\* the parent's words, plus the bonus when it is due.
ScoreWithBonus(p, word, due) ==
    p.score
        + LmLogProb(get_state(start_words \o p.words, FALSE), vocab_index(word))
        + (IF due THEN (0 - unigram_probs(vocab_index(word))) * rare_word_bonus ELSE 0)

SufarrExpanding ==
    fn = "generate_by_beamsearch_sufarr" /\ pc = "search" /\ i' = i + 1

\* C18 (as claimed): in beam_search_sufarr the score of an expanded entry is
\* its parent's score plus the log-probability of the new word plus the
\* rare-word bonus, which is -unigram_probs[word] * rare_word_bonus exactly
\* when the word is not punctuation or a marker, has an id above 4 and is
\* not among the words generated so far, and 0 otherwise.
C18_BonusWhenEligible ==
    [][SufarrExpanding
        => \A e \in Expansions :
              LET word == e[2].words[Len(e[2].words)]
              IN  e[2].score =
                      ScoreWithBonus(e[1], word, BonusEligible(word, e[1].words))]_vars

\* C18 (amended): as above, but the first step (i = 0) never gives the
\* bonus: it is due exactly when the step is not the first and the word is
\* eligible.
C18_BonusAfterFirstStep ==
    [][SufarrExpanding
        => \A e \in Expansions :
              LET word == e[2].words[Len(e[2].words)]
              IN  e[2].score =
                      ScoreWithBonus(e[1], word,
                                     i > 0 /\ BonusEligible(word, e[1].words))]_vars

\* With a rare-word bonus in force, a beam past its second step holds an
\* entry whose last word earned the bonus and one whose last word is
\* punctuation and earned none.
C18_Witness ==
    /\ fn = "generate_by_beamsearch_sufarr" /\ rare_word_bonus > 0 /\ i >= 2
    /\ \E a, b \in 1..Len(beam) :
          /\ Len(beam[a].words) = i /\ Len(beam[b].words) = i
          /\ BonusEligible(beam[a].words[i], SubSeq(beam[a].words, 1, i - 1))
          /\ beam[b].words[i] = "."

\* Some entry of the list scores at least as high as every entry of the pool.
HoldsBestOf(lst, pool) ==
    \E l \in 1..Len(lst) : \A f \in pool : lst[l].score >= f.score

\* C20: in beam_search_phrases with beam_width >= 2, the highest-scoring
\* candidate of every step (over the completed entries carried over and all
\* expansions) is a member of the next beam.
C20_BestSurvives ==
    [][(fn = "beam_search_phrases" /\ pc = "loop" /\ i' = i + 1
            /\ beam_width >= 2
            /\ PhrasesPool(beam, i, prefix_logprobs, length) # {})
        => HoldsBestOf(beam', PhrasesPool(beam, i, prefix_logprobs, length))]_vars

\* The first step had more candidates than the beam is wide, so entries
\* were replaced in the heap, and the beam after it holds the best of them.
C20_Witness ==
    /\ fn = "beam_search_phrases" /\ pc = "loop" /\ i = 1 /\ beam_width >= 2
    /\ Len(PhrasesCandidates(PhrasesFirstBeam(start_words), 0, prefix_logprobs,
                             length)) > beam_width
    /\ HoldsBestOf(beam, PhrasesPool(PhrasesFirstBeam(start_words), 0,
                                     prefix_logprobs, length))

\* A call of generate_diverse_phrases with keywords both functions accept
\* has ended, by a return or by an exception.
DiverseEnded ==
    /\ fn = "generate_diverse_phrases" /\ pc \in {"done", "raised"}
    /\ kw \subseteq FromSufarrParams

\* C15: generate_diverse_phrases returns exactly min(n, number of first-word
\* candidates) phrases whose first words are pairwise distinct, each of
\* `length` words in total, and the empty list when there is no first-word
\* candidate.
C15_DiverseReturnsAll ==
    DiverseEnded =>
        /\ pc = "done"
        /\ Len(ret) = (IF Len(DiverseFirstWords) < n THEN Len(DiverseFirstWords) ELSE n)
        /\ \A a, b \in 1..Len(ret) : a # b => ret[a][1] # ret[b][1]
        /\ \A a \in 1..Len(ret) : Len(ret[a]) = length

\* A request as the dispatcher sends it: no keyword beyond those
\* get_suggestions adds itself.
PlainRequest == InRequest /\ kw \subseteq {"temperature", "use_sufarr"}

\* C16: get_suggestions serves a request with temperature = 0 by beam search
\* (corpus-constrained when use_sufarr is set, plain n-gram otherwise),
\* which never divides by the temperature; it serves a request with
\* temperature > 0 by generate_diverse_phrases, which returns at most 3
\* phrases, whichever the value of use_sufarr.
C16_DispatchByTemperature ==
    (PlainRequest /\ fn # "get_suggestions") =>
        /\ temperature = 0 =>
              fn = (IF use_sufarr THEN "generate_by_beamsearch_sufarr"
                    ELSE "generate_by_beamsearch_ngram")
        /\ temperature > 0 =>
              /\ fn = "generate_diverse_phrases"
              /\ pc # "raised"
              /\ pc = "done" => Len(ret) <= NumSuggestions

\* C19: no step of a call of get_suggestions, whatever the strategy and the
\* keywords (a length bonus or part-of-speech weights included), changes an
\* attribute of the Model: the loaded model, the two bigram tables and the
\* lazily built side tables stay as they are (the suffix array and the
\* vocabulary are fixed data that no statement assigns).
C19_ModelReadOnly ==
    [][InRequest
        => /\ lm' = lm
           /\ unfiltered_bigrams' = unfiltered_bigrams
           /\ filtered_bigrams' = filtered_bigrams
           /\ side_tables' = side_tables]_vars

\* A request that asked for a length bonus or part-of-speech weights has
\* been served to its end (the generator rejected the keyword), and the
\* Model still has no side table.
C19_Witness ==
    /\ InRequest /\ pc \in {"done", "raised"}
    /\ kw \cap {"length_bonus_amt", "pos_weights"} # {}
    /\ side_tables = {}


\* The future of the submitted get_suggestions call holds an exception.
CoreFailed == handler = "waiting" /\ pc = "raised"

\* C14: a failure of the core while a 'requestSuggestions' message is served
\* never leaves on_message, and the step that takes it out of the future
\* writes no message to the connection and leaves the participant and its
\* connection list as they were, with the handler ready for the next message.
C14_FailureContained ==
    /\ [](handler \in {"idle", "waiting"})
    /\ [][CoreFailed =>
            /\ handler' = "idle"
            /\ outbox' = outbox
            /\ participant' = participant
            /\ connections' = connections]_vars

\* C14 witness: a registered participant's request failed in the core with a
\* TypeError and the handler is idle again, nothing written.
C14_Witness ==
    /\ handler = "idle" /\ pc = "raised" /\ exc = "TypeError"
    /\ participant = <<"a", "b">> /\ connections = <<OtherConn, ThisConn>>
    /\ outbox = <<>>


\* Number of entries of a connection list that are the client.
Occurrences(conns, client) ==
    Cardinality({k \in 1..Len(conns) : conns[k] = client})

\* C21: every participant's connection list holds exactly the open
\* connections initialised for that participant, each once, and the
\* broadcast of the last event sent only to open connections of the sender's
\* participant other than the sender.
C21_ListsAreOpenConnections ==
    /\ \A p \in DOMAIN active_participants : \A c \in Conns :
           Occurrences(active_participants[p], c) =
               IF sockets[c].open /\ sockets[c].participant = p THEN 1 ELSE 0
    /\ \A k \in 1..Len(delivered.to) :
           LET conn == delivered.to[k] IN
           /\ sockets[conn].open
           /\ conn # delivered.from
           /\ sockets[conn].participant = sockets[delivered.from].participant

\* C22: no on_close call raises, whatever the connection was initialised as.
C22_CloseNeverRaises == close_exc = "none"

====
